---- MODULE Spec2Model ----
(***************************************************************************)
(* A model of the HPO agent tool (tools/hpo-agent): the hybrid resolver    *)
(* search_terms, the annotation validator submit_annotations and the       *)
(* turn-bounded conversation loop _process_document.                       *)
(*                                                                         *)
(* Text is a sequence of one-character strings.  A few characters outside  *)
(* ASCII are written as their code point ("U+00A0").  A fixed message of   *)
(* the program (the prefix of an error string) is one element of such a    *)
(* sequence.                                                               *)
(***************************************************************************)
EXTENDS Integers, Sequences, FiniteSets, TLC

(***************************************************************************)
(* Python helpers                                                          *)
(***************************************************************************)

\* d.get(k, default) on a dict modelled as a function
Get(d, k, default) == IF k \in DOMAIN d THEN d[k] ELSE default

\* a value that is not a str (an int in a JSON argument)
NotAString == <<"#int">>

IsStr(s) == s # NotAString

AsciiUpper == {"A", "B", "C", "H", "P"}

AsciiLower == {"a", "b", "c", "d", "h", "p"}

AsciiDigits == {"0", "1", "2", "3", "4", "5", "6", "7", "8", "9"}

\* decimal digits outside ASCII (category Nd): ARABIC-INDIC DIGIT THREE
UnicodeDigits == {"U+0663"}

\* the characters \s matches once char_mappings has been applied
Whitespace == {" ", "\t", "\n", "\r"}

\* str.lower() on one character
LowerChar(c) ==
    CASE c = "A" -> "a"
      [] c = "B" -> "b"
      [] c = "C" -> "c"
      [] c = "H" -> "h"
      [] c = "P" -> "p"
      [] OTHER -> c

RECURSIVE lower(_)
lower(s) == IF s = <<>> THEN <<>> ELSE <<LowerChar(Head(s))>> \o lower(Tail(s))

\* str.strip(): leading and trailing whitespace removed
RECURSIVE lstrip(_)
lstrip(s) ==
    IF s # <<>> /\ Head(s) \in Whitespace THEN lstrip(Tail(s)) ELSE s

RECURSIVE rstrip(_)
rstrip(s) ==
    IF s # <<>> /\ s[Len(s)] \in Whitespace
    THEN rstrip(SubSeq(s, 1, Len(s) - 1))
    ELSE s

strip(s) == rstrip(lstrip(s))

\* re.sub(r'\s+', ' ', s): every run of whitespace becomes one space
RECURSIVE collapse_whitespace(_)
collapse_whitespace(s) ==
    IF s = <<>> THEN <<>>
    ELSE IF Head(s) \in Whitespace
         THEN <<" ">> \o collapse_whitespace(lstrip(s))
         ELSE <<Head(s)>> \o collapse_whitespace(Tail(s))

\* needle in haystack (Python's substring test)
Contains(haystack, needle) ==
    \E i \in 0..(Len(haystack) - Len(needle)) :
        SubSeq(haystack, i + 1, i + Len(needle)) = needle

\* the position of the first occurrence of sep in s, 0 when there is none
FirstIndex(s, sep) ==
    IF Contains(s, sep)
    THEN CHOOSE i \in 1..(Len(s) - Len(sep) + 1) :
            /\ SubSeq(s, i, i + Len(sep) - 1) = sep
            /\ \A j \in 1..(i - 1) : SubSeq(s, j, j + Len(sep) - 1) # sep
    ELSE 0

\* s.split(sep)
RECURSIVE split(_, _)
split(s, sep) ==
    LET i == FirstIndex(s, sep)
    IN  IF i = 0 THEN <<s>>
        ELSE <<SubSeq(s, 1, i - 1)>> \o split(SubSeq(s, i + Len(sep), Len(s)), sep)

\* "".join / list concatenation of a sequence of texts
RECURSIVE Flatten(_)
Flatten(ss) == IF ss = <<>> THEN <<>> ELSE Head(ss) \o Flatten(Tail(ss))

(***************************************************************************)
(* agent.py: text normalization for span matching                          *)
(***************************************************************************)

\* char_mappings and the NFD base-letter step, on one character
UnicodeToAsciiChar(c) ==
    CASE c = "U+00A0" -> <<" ">>
      [] c = "U+2013" -> <<"-">>
      [] c = "U+2026" -> <<".", ".", ".">>
      [] c = "U+00E9" -> <<"e">>
      [] OTHER -> <<c>>

RECURSIVE normalize_unicode_to_ascii(_)
normalize_unicode_to_ascii(text) ==
    IF text = <<>> THEN <<>>
    ELSE UnicodeToAsciiChar(Head(text)) \o normalize_unicode_to_ascii(Tail(text))

normalize_text_for_matching(text) ==
    IF text = <<>> THEN <<>>
    ELSE strip(collapse_whitespace(lower(normalize_unicode_to_ascii(text))))

\* the literal separator of a discontinuous span
ARROW == <<" ", "-", ">", " ">>

RECURSIVE StripAll(_)
StripAll(parts) ==
    IF parts = <<>> THEN <<>> ELSE <<strip(Head(parts))>> \o StripAll(Tail(parts))

\* a discontinuous span accepted as soon as one of its parts is present
validate_any_part_in_sentence(text_span, sentence) ==
    IF Contains(text_span, ARROW)
    THEN LET parts == StripAll(split(text_span, ARROW))
             sentence_normalized == normalize_text_for_matching(sentence)
         IN  \E k \in 1..Len(parts) :
                Contains(sentence_normalized, normalize_text_for_matching(parts[k]))
    ELSE Contains(normalize_text_for_matching(sentence),
                  normalize_text_for_matching(text_span))

validate_text_span_in_sentence(text_span, sentence) ==
    IF Contains(text_span, ARROW)
    THEN LET parts == StripAll(split(text_span, ARROW))
             sentence_normalized == normalize_text_for_matching(sentence)
         IN  \A k \in 1..Len(parts) :
                Contains(sentence_normalized, normalize_text_for_matching(parts[k]))
    ELSE Contains(normalize_text_for_matching(sentence),
                  normalize_text_for_matching(text_span))

\* the sentence indices (0-based, ascending) in which the span is found
RECURSIVE ValidSentencesFrom(_, _, _)
ValidSentencesFrom(text_span, sentences, i) ==
    IF i > Len(sentences) THEN <<>>
    ELSE (IF validate_text_span_in_sentence(text_span, sentences[i])
          THEN <<i - 1>> ELSE <<>>)
         \o ValidSentencesFrom(text_span, sentences, i + 1)

validate_text_span_in_document(text_span, sentences) ==
    ValidSentencesFrom(text_span, sentences, 1)

(***************************************************************************)
(* agent.py: submit_annotations                                            *)
(***************************************************************************)

Digits == AsciiDigits \cup UnicodeDigits

\* re.match(r"^HP:\d{7}$", hpo_id): \d is any decimal digit, and $ also
\* matches before one trailing newline
MatchesSubmitPattern(hpo_id) ==
    LET core == IF Len(hpo_id) = 11 /\ hpo_id[11] = "\n"
                THEN SubSeq(hpo_id, 1, 10) ELSE hpo_id
    IN  /\ Len(core) = 10
        /\ core[1] = "H" /\ core[2] = "P" /\ core[3] = ":"
        /\ \A k \in 4..10 : core[k] \in Digits

\* str(n) for a small natural number
DigitChar(d) ==
    CASE d = 0 -> "0" [] d = 1 -> "1" [] d = 2 -> "2" [] d = 3 -> "3"
      [] d = 4 -> "4" [] d = 5 -> "5" [] d = 6 -> "6" [] d = 7 -> "7"
      [] d = 8 -> "8" [] d = 9 -> "9"

RECURSIVE IntStr(_)
IntStr(n) == IF n < 10 THEN <<DigitChar(n)>> ELSE IntStr(n \div 10) \o <<DigitChar(n % 10)>>

\* repr(s) of a str: single quotes unless s holds a single quote and no double quote
Repr(s) ==
    LET q == IF (\E k \in 1..Len(s) : s[k] = "'") /\ ~(\E k \in 1..Len(s) : s[k] = "\"")
             THEN "\"" ELSE "'"
    IN  <<q>> \o s \o <<q>>

RECURSIVE JoinReprs(_)
JoinReprs(es) ==
    IF es = <<>> THEN <<>>
    ELSE IF Len(es) = 1 THEN Repr(es[1])
    ELSE Repr(es[1]) \o <<",", " ">> \o JoinReprs(Tail(es))

\* str(errors) of a list of str
StrOfList(es) == <<"[">> \o JoinReprs(es) \o <<"]">>

InvalidIdError(hpo_id) == <<"Invalid HPO ID format: ">> \o hpo_id

SpanNotFoundError(text_span) ==
    <<"Text span '">> \o text_span
        \o <<"' not found as complete span within any single sentence">>

\* a single pick: the first sentence index only
FanOutFirstOnly(text_span, hpo_id, valid_sentences) ==
    IF valid_sentences = <<>> THEN <<>>
    ELSE <<[text_span |-> text_span, hpo_id |-> hpo_id,
            sentence_index |-> Head(valid_sentences)]>>

\* the validated annotations of one annotation, one per sentence index
RECURSIVE FanOut(_, _, _)
FanOut(text_span, hpo_id, valid_sentences) ==
    IF valid_sentences = <<>> THEN <<>>
    ELSE <<[text_span |-> text_span, hpo_id |-> hpo_id,
            sentence_index |-> Head(valid_sentences)]>>
         \o FanOut(text_span, hpo_id, Tail(valid_sentences))

\* re.match and the `in` test raise TypeError on an argument that is no str
AnnotationRaises(annotation) ==
    \/ ~IsStr(Get(annotation, "hpo_id", <<>>))
    \/ /\ MatchesSubmitPattern(Get(annotation, "hpo_id", <<>>))
       /\ ~IsStr(Get(annotation, "text_span", <<>>))

\* a loop that stops at the first malformed identifier
SubmitOneAborts(text_span, hpo_id, valid_sentences, rest) ==
    IF ~MatchesSubmitPattern(hpo_id)
    THEN [validated_annotations |-> <<>>, errors |-> <<InvalidIdError(hpo_id)>>]
    ELSE IF valid_sentences # <<>>
    THEN [validated_annotations |->
              FanOut(text_span, hpo_id, valid_sentences) \o rest.validated_annotations,
          errors |-> rest.errors]
    ELSE [validated_annotations |-> rest.validated_annotations,
          errors |-> <<SpanNotFoundError(text_span)>> \o rest.errors]

\* one pass of the loop of submit_annotations, added in front of what the
\* later passes give
SubmitOne(text_span, hpo_id, valid_sentences, rest) ==
    IF ~MatchesSubmitPattern(hpo_id)
    THEN [validated_annotations |-> rest.validated_annotations,
          errors |-> <<InvalidIdError(hpo_id)>> \o rest.errors]
    ELSE IF valid_sentences # <<>>
    THEN [validated_annotations |->
              FanOut(text_span, hpo_id, valid_sentences) \o rest.validated_annotations,
          errors |-> rest.errors]
    ELSE [validated_annotations |-> rest.validated_annotations,
          errors |-> <<SpanNotFoundError(text_span)>> \o rest.errors]

SubmitAnnotation(text_span, hpo_id, sentences, rest) ==
    SubmitOne(text_span, hpo_id,
              validate_text_span_in_document(text_span, sentences), rest)

\* the loop of submit_annotations: [validated_annotations, errors]
RECURSIVE SubmitLoop(_, _)
SubmitLoop(annotations, sentences) ==
    IF annotations = <<>> THEN [validated_annotations |-> <<>>, errors |-> <<>>]
    ELSE SubmitAnnotation(Get(Head(annotations), "text_span", <<>>),
                          Get(Head(annotations), "hpo_id", <<>>),
                          sentences,
                          SubmitLoop(Tail(annotations), sentences))

SubmitRaises(annotations) ==
    \E k \in 1..Len(annotations) : AnnotationRaises(annotations[k])

ValidationResult(annotations, r) ==
    [validated_annotations |-> r.validated_annotations,
     errors |-> StrOfList(r.errors),
     total_submitted |-> IntStr(Len(annotations)),
     total_validated |-> IntStr(Len(r.validated_annotations))]

\* the dict submit_annotations returns (when it does not raise)
submit_annotations(annotations, sentences) ==
    ValidationResult(annotations, SubmitLoop(annotations, sentences))

(***************************************************************************)
(* agent.py: the ontology, the exact-match index and search_terms          *)
(***************************************************************************)

\* Optional[...]: None, or a value
NoneValue == [is_none |-> TRUE]

Some(v) == [is_none |-> FALSE, value |-> v]

ID_A == <<"H", "P", ":", "0", "0", "0", "0", "0", "0", "1">>

ID_B == <<"H", "P", ":", "0", "0", "0", "0", "0", "0", "2">>

ID_OBSOLETE == <<"H", "P", ":", "0", "0", "0", "0", "0", "0", "3">>

\* an identifier the vector store holds and this ontology version does not
ID_STALE == <<"H", "P", ":", "0", "0", "0", "0", "0", "0", "9">>

\* the terms pyhpo loads: two terms sharing the synonym "c", one obsolete term
ONTOLOGY ==
    { [id |-> ID_A, name |-> <<"A">>, synonym |-> {<<"c">>}, is_obsolete |-> FALSE],
      [id |-> ID_B, name |-> <<"B", "!">>, synonym |-> {<<"C">>}, is_obsolete |-> FALSE],
      [id |-> ID_OBSOLETE, name |-> <<"d">>, synonym |-> {}, is_obsolete |-> TRUE] }

OntologyIds == {t.id : t \in ONTOLOGY}

\* only the first character outside the class is removed
RECURSIVE RemoveFirstNonAlnum(_)
RemoveFirstNonAlnum(s) ==
    IF s = <<>> THEN <<>>
    ELSE IF Head(s) \in AsciiLower \cup AsciiDigits \cup Whitespace \cup {"U+00A0"}
         THEN <<Head(s)>> \o RemoveFirstNonAlnum(Tail(s))
         ELSE Tail(s)

\* re.sub(r'[^a-z0-9\s]', '', text.lower()); \s also matches NO-BREAK SPACE
RECURSIVE RemoveNonAlnum(_)
RemoveNonAlnum(s) ==
    IF s = <<>> THEN <<>>
    ELSE (IF Head(s) \in AsciiLower \cup AsciiDigits \cup Whitespace \cup {"U+00A0"}
          THEN <<Head(s)>> ELSE <<>>)
         \o RemoveNonAlnum(Tail(s))

normalize_text(text) ==
    IF text = <<>> THEN <<>> ELSE RemoveNonAlnum(lower(text))

\* the keys and buckets build_index_exact_matches fills
IndexedNames(term) == {term.name} \cup term.synonym

\* for term in ONTOLOGY: if not term.is_obsolete
LiveTerms(ontology) == {t \in ontology : ~t.is_obsolete}

IndexKeys(ontology) ==
    UNION {{normalize_text(n) : n \in IndexedNames(t)} : t \in LiveTerms(ontology)}

\* index[k]: the ids added under the key k
Bucket(ontology, k) ==
    {t.id : t \in {u \in LiveTerms(ontology) :
                      \E n \in IndexedNames(u) : normalize_text(n) = k}}

\* build_index_exact_matches over the terms of `ontology`
BuildIndex(ontology) == [k \in IndexKeys(ontology) |-> Bucket(ontology, k)]

build_index_exact_matches == BuildIndex(ONTOLOGY)

\* index[normalized_query] on the defaultdict, without the membership test
find_exact_matches_unguarded(query, index) ==
    Some(IF normalize_text(query) \in DOMAIN index THEN index[normalize_text(query)] ELSE {})

find_exact_matches(query, index) ==
    LET normalized_query == normalize_text(query)
    IN  IF normalized_query \in DOMAIN index
        THEN Some(index[normalized_query])
        ELSE NoneValue

\* index[key] of a defaultdict(set): an absent key gets an empty bucket
DefaultDictRead(index, key) ==
    IF key \in DOMAIN index THEN index
    ELSE [k \in DOMAIN index \cup {key} |-> IF k = key THEN {} ELSE index[k]]

\* the index after a lookup that reads index[key] without the `in` test
IndexAfterUnguarded(query, index) ==
    DefaultDictRead(index, normalize_text(query))

\* the index after find_exact_matches(query): index[key] is read only when
\* the key is in the index
IndexAfter(query, index) ==
    IF normalize_text(query) \in DOMAIN index
    THEN DefaultDictRead(index, normalize_text(query))
    ELSE index

\* the index after find_exact_matches on each of the queries
RECURSIVE IndexAfterAll(_, _)
IndexAfterAll(queries, index) ==
    IF queries = <<>> THEN index
    ELSE IndexAfterAll(Tail(queries), IndexAfter(Head(queries), index))

\* truthiness of Optional[Set]
Truthy(opt) == ~opt.is_none /\ opt.value # {}

\* iterating a set: the elements in the order the hash table yields them
SeqOfSet(S, order) == SelectSeq(order, LAMBDA x : x \in S)

RECURSIVE ScoreAll(_, _)
ScoreAll(ids, score) ==
    IF ids = <<>> THEN <<>> ELSE <<<<Head(ids), score>>>> \o ScoreAll(Tail(ids), score)

\* the score 1.0, in hundredths
ExactScore == 100

\* a query with exact matches is embedded all the same
ExactStepEmbedsToo(acc, i, query, exact_matches, order) ==
    IF Truthy(exact_matches)
    THEN [acc EXCEPT !.results[i] =
             ScoreAll(SeqOfSet(exact_matches.value, order), ExactScore),
                     !.to_embed = Append(@, query),
                     !.embed_indices = Append(@, i)]
    ELSE [acc EXCEPT !.to_embed = Append(@, query),
                     !.embed_indices = Append(@, i)]

\* one pass of the first loop of search_terms
ExactStep(acc, i, query, exact_matches, order) ==
    IF Truthy(exact_matches)
    THEN [acc EXCEPT !.results[i] =
             ScoreAll(SeqOfSet(exact_matches.value, order), ExactScore)]
    ELSE [acc EXCEPT !.to_embed = Append(@, query),
                     !.embed_indices = Append(@, i)]

\* step 1 of search_terms, from query i on
RECURSIVE ExactPassFrom(_, _, _, _, _)
ExactPassFrom(queries, index, order, i, acc) ==
    IF i > Len(queries) THEN acc
    ELSE ExactPassFrom(queries, index, order, i + 1,
             ExactStep(acc, i, queries[i], find_exact_matches(queries[i], index), order))

\* an exact pass that hands the misses over in reverse order
ExactPassMissesReversed(queries, index, order) ==
    LET p == ExactPassFrom(queries, index, order, 1,
                 [results |-> [i \in 1..Len(queries) |-> <<>>],
                  to_embed |-> <<>>, embed_indices |-> <<>>])
    IN  [p EXCEPT !.to_embed = [k \in 1..Len(@) |-> @[Len(@) + 1 - k]]]

ExactPass(queries, index, order) ==
    ExactPassFrom(queries, index, order, 1,
        [results |-> [i \in 1..Len(queries) |-> <<>>],
         to_embed |-> <<>>, embed_indices |-> <<>>])

\* embedding_model.embed_queries: one vector per text
embed_queries(texts) == [k \in 1..Len(texts) |-> <<"vec", texts[k]>>]

Min(a, b) == IF a < b THEN a ELSE b

\* the points the store returns for one request: at most `limit` of them
StorePoints(points, embedding, limit) ==
    LET all == points[embedding[2]] IN SubSeq(all, 1, Min(limit, Len(all)))

\* one point of a response: (id, score), a missing score counts as 0.0;
\* a point without an id is skipped
PointToResult(hpo_id, score) ==
    IF hpo_id # <<>> THEN <<<<hpo_id, score>>>> ELSE <<>>

\* the inner loop of query_vector_db
RECURSIVE PointsToResponse(_)
PointsToResponse(pts) ==
    IF pts = <<>> THEN <<>>
    ELSE PointToResult(Get(Get(Head(pts), "payload", <<>>), "id", <<>>),
                       Get(Head(pts), "score", 0))
         \o PointsToResponse(Tail(pts))

query_vector_db(embeddings, points, top_k) ==
    [k \in 1..Len(embeddings) |->
        PointsToResponse(StorePoints(points, embeddings[k], top_k))]

\* the results written back in the order they came, not at embed_indices
RECURSIVE CombineByPosition(_, _, _, _)
CombineByPosition(results, embed_indices, search_results, k) ==
    IF k > Min(Len(embed_indices), Len(search_results)) THEN results
    ELSE CombineByPosition([results EXCEPT ![k] = search_results[k]],
                           embed_indices, search_results, k + 1)

\* step 4 of search_terms: zip(embed_indices, search_results)
RECURSIVE Combine(_, _, _, _)
Combine(results, embed_indices, search_results, k) ==
    IF k > Min(Len(embed_indices), Len(search_results)) THEN results
    ELSE Combine([results EXCEPT ![embed_indices[k]] = search_results[k]],
                 embed_indices, search_results, k + 1)

\* steps 2 to 4 of search_terms, after the exact pass p
SemanticPass(p, top_k, points) ==
    IF p.to_embed # <<>>
    THEN Combine(p.results, p.embed_indices,
                 query_vector_db(embed_queries(p.to_embed), points, top_k), 1)
    ELSE p.results

\* search_terms when neither external service raises
search_terms(queries, top_k, index, order, points) ==
    SemanticPass(ExactPass(queries, index, order), top_k, points)

\* search_terms raises when a service it calls raises
search_terms_raises(queries, index, order, embed_raises, store_raises) ==
    ExactPass(queries, index, order).to_embed # <<>> /\ (embed_raises \/ store_raises)

(***************************************************************************)
(* agent.py: the search tools                                              *)
(***************************************************************************)

\* HPOEntry(id) raises ValueError for an id the ontology does not hold
HPOEntryRaises(hpo_id) == hpo_id \notin OntologyIds

\* HPOEntry(hpo_id).to_dict() | {"score": score}
TermEntry(term, score) == [id |-> term.id, name |-> term.name, score |-> score]

EntryWithScore(hpo_id, score) ==
    TermEntry(CHOOSE t \in ONTOLOGY : t.id = hpo_id, score)

EntriesWithScores(search_result) ==
    [k \in 1..Len(search_result) |->
        EntryWithScore(search_result[k][1], search_result[k][2])]

AnyEntryRaises(search_result) ==
    \E k \in 1..Len(search_result) : HPOEntryRaises(search_result[k][1])

\* an exception text: str(e)
ExceptionText == <<"exception">>

\* A tool function's outcome: it raised, or it returned a value.
Raised == [raised |-> TRUE, error |-> ExceptionText]

Returned(v) == [raised |-> FALSE, value |-> v]

\* env: what the outside world does during one tool call
\*   order         the iteration order of a set of identifiers
\*   embed_raises  the embedding model raises
\*   store_raises  the vector store raises
\*   points        the points the vector store holds near each query
Candidates(search_result) ==
    IF AnyEntryRaises(search_result) THEN Raised
    ELSE Returned(EntriesWithScores(search_result))

search_hpo_candidates(query, top_k, index, env) ==
    IF search_terms_raises(<<query>>, index, env.order, env.embed_raises, env.store_raises)
    THEN Raised
    ELSE Candidates(search_terms(<<query>>, top_k, index, env.order, env.points)[1])

\* top_k of batch_search_hpo_candidates
BatchTopK == 10

BatchCandidates(search_results) ==
    IF \E k \in 1..Len(search_results) : AnyEntryRaises(search_results[k])
    THEN Raised
    ELSE Returned([k \in 1..Len(search_results) |-> EntriesWithScores(search_results[k])])

batch_search_hpo_candidates(queries, index, env) ==
    IF search_terms_raises(queries, index, env.order, env.embed_raises, env.store_raises)
    THEN Raised
    ELSE BatchCandidates(search_terms(queries, BatchTopK, index, env.order, env.points))

(***************************************************************************)
(* tool.py: HPOAgentModelImplementation                                    *)
(***************************************************************************)

\* the empty dict {}
EmptyDict == <<>>

\* an argument that is no list (an int where the schema asks for an array)
NotAList == <<[not_a_list |-> TRUE]>>

\* top_k default of the search_hpo_candidates tool call
DefaultTopK == 15

\* max_turns of _process_document
max_turns == 10

\* "Document to analyze:\n" followed by "(i) sentence\n" for each sentence
RECURSIVE NumberedSentences(_, _)
NumberedSentences(sentences, i) ==
    IF i > Len(sentences) THEN <<>>
    ELSE <<"(">> \o IntStr(i) \o <<")", " ">> \o sentences[i] \o <<"\n">>
         \o NumberedSentences(sentences, i + 1)

DocumentText(sentences) ==
    <<"Document to analyze:", "\n">> \o NumberedSentences(sentences, 1)

InitialContents(sentences) ==
    <<[role |-> "user", parts |-> <<[text |-> DocumentText(sentences)]>>]>>

\* the parts of a response that carry a function call, in order
IsFunctionCallPart(part) == "function_call" \in DOMAIN part

RECURSIVE FunctionCallsOf(_)
FunctionCallsOf(parts) ==
    IF parts = <<>> THEN <<>>
    ELSE (IF IsFunctionCallPart(Head(parts)) THEN <<Head(parts).function_call>> ELSE <<>>)
         \o FunctionCallsOf(Tail(parts))

\* the logging of a submit_answer call takes len(mappings) and mappings[:5]
LoggingRaises(parts) ==
    \E k \in 1..Len(parts) :
        /\ IsFunctionCallPart(parts[k])
        /\ parts[k].function_call.name = "submit_answer"
        /\ parts[k].function_call.args # EmptyDict
        /\ Get(parts[k].function_call.args, "mappings", <<>>) = NotAList

\* the except clause of _execute_function_call
OnToolRethrow(function_name, e) == Raised

OnToolException(function_name, e) ==
    Returned([function |-> function_name, error |-> e])

\* is the errors string of a validation result a list with errors in it
HasErrorsNever(errors) == FALSE

HasErrors(errors) == errors # <<>> /\ errors # <<"[", "]">>

\* return {"function": function_name, "result": {key: result}}
SearchResponse(function_name, key, r) ==
    IF r.raised THEN Raised
    ELSE Returned([function |-> function_name, result |-> [k \in {key} |-> r.value]])

\* the submit_answer branch, given what submit_annotations returned
SubmitResponse(function_name, validation_result) ==
    Returned([function |-> function_name,
              result |-> validation_result,
              final |-> ~HasErrors(validation_result.errors)])

SubmitAnswer(function_name, mappings, sentences) ==
    IF mappings = NotAList \/ SubmitRaises(mappings) THEN Raised
    ELSE SubmitResponse(function_name, submit_annotations(mappings, sentences))

\* the try body of _execute_function_call
TryFunctionCall(function_name, args, sentences, index, env) ==
    CASE function_name = "batch_search_hpo_candidates" ->
            SearchResponse(function_name, "batch_candidates",
                batch_search_hpo_candidates(Get(args, "queries", <<>>), index, env))
      [] function_name = "search_hpo_candidates" ->
            SearchResponse(function_name, "candidates",
                search_hpo_candidates(Get(args, "query", <<>>),
                                      Get(args, "top_k", DefaultTopK), index, env))
      [] function_name = "submit_answer" ->
            SubmitAnswer(function_name, Get(args, "mappings", <<>>), sentences)
      [] OTHER ->
            Returned([function |-> function_name, error |-> <<"Unknown function">>])

CatchException(function_name, r) ==
    IF r.raised THEN OnToolException(function_name, r.error) ELSE r

execute_function_call(function_call, sentences, index, env) ==
    CatchException(function_call.name,
        TryFunctionCall(function_call.name, function_call.args, sentences, index, env))

\* PhenotypeMatch.validate_hpo_id: re.match(r"^HP:[0-9]+$", v)
MatchesCuriePattern(v) ==
    LET core == IF v # <<>> /\ v[Len(v)] = "\n" THEN SubSeq(v, 1, Len(v) - 1) ELSE v
    IN  /\ Len(core) >= 4
        /\ core[1] = "H" /\ core[2] = "P" /\ core[3] = ":"
        /\ \A k \in 4..Len(core) : core[k] \in AsciiDigits

\* the annotations _convert_to_sentence_organized_matches turns into matches
IsConverted(annotation, sentences) ==
    /\ Get(annotation, "text_span", <<>>) # <<>>
    /\ Get(annotation, "hpo_id", <<>>) # <<>>
    /\ 0 <= Get(annotation, "sentence_index", 0)
    /\ Get(annotation, "sentence_index", 0) < Len(sentences)

\* [[] for _ in sentences]
EmptyResultsNone(sentences) == <<>>

EmptyResults(sentences) == [i \in 1..Len(sentences) |-> <<>>]

\* PhenotypeMatch(id=hpo_id, match_text=text_span)
PhenotypeMatch(annotation) ==
    [id |-> Get(annotation, "hpo_id", <<>>),
     match_text |-> Get(annotation, "text_span", <<>>)]

\* every match opens a list of its own
ConvertOneAppend(annotation, sentences, sentence_matches) ==
    IF IsConverted(annotation, sentences)
    THEN Append(sentence_matches, <<PhenotypeMatch(annotation)>>)
    ELSE sentence_matches

ConvertOne(annotation, sentences, sentence_matches) ==
    IF IsConverted(annotation, sentences)
    THEN [sentence_matches EXCEPT ![Get(annotation, "sentence_index", 0) + 1] =
             Append(@, PhenotypeMatch(annotation))]
    ELSE sentence_matches

RECURSIVE ConvertLoop(_, _, _)
ConvertLoop(validated_annotations, sentences, sentence_matches) ==
    IF validated_annotations = <<>> THEN sentence_matches
    ELSE ConvertLoop(Tail(validated_annotations), sentences,
                     ConvertOne(Head(validated_annotations), sentences, sentence_matches))

convert_to_sentence_organized_matches(validated_annotations, sentences) ==
    ConvertLoop(validated_annotations, sentences, EmptyResults(sentences))

\* PhenotypeMatch(...) raises a validation error for an id it rejects
ConvertRaises(validated_annotations, sentences) ==
    \E k \in 1..Len(validated_annotations) :
        /\ IsConverted(validated_annotations[k], sentences)
        /\ ~MatchesCuriePattern(validated_annotations[k].hpo_id)

\* if function_calls: contents.append(response.candidates[0].content)
AddModelContentAlways(contents, resp) ==
    Append(contents, [role |-> "model", parts |-> resp.parts])

AddModelContent(contents, resp) ==
    IF FunctionCallsOf(resp.parts) # <<>>
    THEN Append(contents, [role |-> "model", parts |-> resp.parts])
    ELSE contents

\* a tool-response turn that takes the place of the last turn
AddToolContentInPlace(transcript, parts) ==
    SubSeq(transcript, 1, Len(transcript) - 1) \o <<[role |-> "user", parts |-> parts]>>

\* contents.append(types.Content(role="user", parts=function_response_parts))
AddToolContent(transcript, parts) ==
    Append(transcript, [role |-> "user", parts |-> parts])

\* Part.from_function_response(name=..., response=func_response.get("result", {}))
FunctionResponsePart(function_call, func_response) ==
    [function_response |->
        [name |-> function_call.name, response |-> Get(func_response, "result", EmptyDict)]]

\* function_response_parts.append(function_response_part)
AddResponsePartFront(function_response_parts, part) == <<part>> \o function_response_parts

AddResponsePart(function_response_parts, part) == Append(function_response_parts, part)

\* while turn_count < max_turns
LoopContinuesOneMore(count) == count <= max_turns

LoopContinues(count) == count < max_turns

\* except Exception: ... break
ExceptionRetries == FALSE

ExceptionEnds == TRUE

(***************************************************************************)
(* The inputs: documents, provider responses, the outside services         *)
(***************************************************************************)

S0 == <<"A", " ", "b">>

S1 == <<"b", "\n", "c">>

Documents == {<<S0>>, <<S0, S1>>}

\* an identifier whose last digit is no ASCII digit
ID_UNICODE == <<"H", "P", ":", "0", "0", "0", "0", "0", "0", "U+0663">>

MapGood == [text_span |-> <<"a", " ", "b">>, hpo_id |-> ID_A]

MapFan == [text_span |-> <<"B">>, hpo_id |-> ID_B]

MapDiscontinuous == [text_span |-> <<"c", " ", "-", ">", " ", "b">>, hpo_id |-> ID_B]

MapBadId == [text_span |-> <<"b">>, hpo_id |-> <<"H", "P", ":", "1">>]

MapNotFound == [text_span |-> <<"a", " ", "c">>, hpo_id |-> ID_A]

MapNoSpan == [hpo_id |-> ID_A]

MapUnicodeId == [text_span |-> <<"b">>, hpo_id |-> ID_UNICODE]

MapNonStrId == [text_span |-> <<"b">>, hpo_id |-> NotAString]

FC(name, args) == [function_call |-> [name |-> name, args |-> args]]

Submit(mappings) == FC("submit_answer", [mappings |-> mappings])

SearchHit == FC("search_hpo_candidates", [query |-> <<"a">>])

SearchMiss == FC("search_hpo_candidates", [query |-> <<"d">>, top_k |-> 2])

BatchSearch == FC("batch_search_hpo_candidates", [queries |-> << <<"C">>, <<"d">> >>])

UnknownCall == FC("get_hpo_entry", [hpo_id |-> ID_A])

TextPart == [text |-> <<"t">>]

\* a response without candidates or parts
EmptyResponse == [parts |-> <<>>]

\* free text, no tool call
TextResponse == [parts |-> <<TextPart>>]

\* one search with an exact hit
PlainResponse == [parts |-> <<SearchHit>>]

RichResponses ==
    { [parts |-> <<c>>] :
        c \in { SearchMiss, UnknownCall,
                Submit(<<>>), FC("submit_answer", EmptyDict),
                Submit(<<MapGood>>), Submit(<<MapFan, MapDiscontinuous>>),
                Submit(<<MapBadId, MapGood>>), Submit(<<MapNotFound>>),
                Submit(<<MapNoSpan>>), Submit(<<MapUnicodeId>>),
                Submit(<<MapNonStrId>>), Submit(NotAList) } }
    \cup
    { EmptyResponse,
      [parts |-> <<TextPart, BatchSearch, UnknownCall>>],
      [parts |-> <<Submit(<<MapBadId, MapGood>>), Submit(<<MapGood>>)>>],
      [parts |-> <<SearchMiss, Submit(<<MapFan, MapGood>>), UnknownCall>>],
      [parts |-> <<SearchHit, Submit(NotAList)>>] }

\* what the provider may answer in every turn: free text, one search, one submit
LaterResponses == {TextResponse, PlainResponse, [parts |-> <<Submit(<<MapGood>>)>>]}

\* the provider answers with a response of RichResponses only in the first
\* MaxRichTurns turns of an invocation
MaxRichTurns == 1

Queries == {<<"a">>, <<"C">>, <<"d">>, <<>>}

Point(hpo_id, score) == [payload |-> [id |-> hpo_id], score |-> score]

PointsNone == [q \in Queries |-> <<>>]

PointsSome ==
    [q \in Queries |->
        IF q = <<"d">>
        THEN <<Point(ID_OBSOLETE, 80), [score |-> 70], [payload |-> [id |-> ID_A]],
               Point(ID_B, 60)>>
        ELSE IF q = <<>> THEN <<Point(ID_B, 50)>> ELSE <<>>]

PointsStale == [q \in Queries |-> IF q = <<"d">> THEN <<Point(ID_STALE, 90)>> ELSE <<>>]

Stores == {PointsNone, PointsSome, PointsStale}

Orders == {<<ID_A, ID_B>>, <<ID_B, ID_A>>}

Env(order, embed_raises, store_raises, points) ==
    [order |-> order, embed_raises |-> embed_raises, store_raises |-> store_raises,
     points |-> points]

\* the services answer, or one of them raises
Envs ==
    {Env(o, FALSE, FALSE, p) : o \in Orders, p \in Stores}
        \cup {Env(<<ID_A, ID_B>>, TRUE, FALSE, PointsNone),
              Env(<<ID_A, ID_B>>, FALSE, TRUE, PointsNone)}

\* only the search tools reach the outside services
IsSearchCall(function_call) ==
    function_call.name \in {"batch_search_hpo_candidates", "search_hpo_candidates"}

EnvsFor(function_call) ==
    IF IsSearchCall(function_call) THEN Envs
    ELSE {Env(<<ID_A, ID_B>>, FALSE, FALSE, PointsNone)}

(***************************************************************************)
(* State                                                                   *)
(***************************************************************************)

VARIABLES
    EXACT_MATCH_INDEX,      \* agent.py: the module-level index
    gemini_client,          \* self.gemini_client is set (the model is loaded)
    conversation_length_tracker,    \* self._conversation_length_tracker
    sentences,              \* the document of the invocation
    contents,               \* the transcript
    turn_count,
    pc,                     \* "idle", "loop" (the while test), "dispatch" (the for loop), "done"
    exit,                   \* how the invocation ended: "return_final", "break", "while_end"
    response,               \* the last response of the provider
    function_calls,         \* the function calls of the response being dispatched
    call_index,             \* the position of the for loop in function_calls
    function_response_parts,
    output,                 \* the value _process_document returned
    provider_calls,         \* how often generate_content was called
    executed,               \* the calls run in the current tool turn, with what they returned
    search,                 \* the frame of a search_terms call
    call,                   \* the frame of a call of one of the pure functions of agent.py
    other,                  \* the locals of a second _process_document invocation
    state,                  \* ModelInterface: self.state
    model_loaded,           \* ModelInterface: self.model_loaded
    error_message,          \* ModelInterface: self.error_message
    calls,                  \* ModelInterface: the public calls in flight, one per caller
    last                    \* ModelInterface: what the public call that ended last did

vars ==
    <<EXACT_MATCH_INDEX, gemini_client, conversation_length_tracker, sentences, contents,
      turn_count, pc, exit, response, function_calls, call_index,
      function_response_parts, output, provider_calls, executed, search,
      call, other, state, model_loaded, error_message, calls, last>>

\* the tool instance as the API layer sees it
toolVars == <<state, model_loaded, error_message, calls, last>>

agentVars ==
    <<gemini_client, conversation_length_tracker, sentences, contents,
      turn_count, pc, exit, response, function_calls, call_index,
      function_response_parts, output, provider_calls, executed>>

\* the locals of a search_terms call; embed_calls and store_calls list the
\* arguments of the calls made to the two services
SearchFrame(p, queries, top_k) ==
    [pc |-> p, queries |-> queries, top_k |-> top_k, points |-> PointsNone,
     results |-> <<>>, to_embed |-> <<>>, embed_indices |-> <<>>,
     embeddings |-> <<>>, search_results |-> <<>>,
     embed_calls |-> <<>>, store_calls |-> <<>>]

IdleSearch == SearchFrame("idle", <<>>, 0)

\* no pure function is being called
IdleCall == [pc |-> "idle"]

\* no second invocation runs
IdleOther == [pc |-> "idle"]

\* types.py: ToolState
READY == "ready"

BUSY == "busy"

LOADING == "loading"

UNLOADING == "unloading"

ERROR == "error"

UNLOADED == "unloaded"

ToolStates == {READY, BUSY, LOADING, UNLOADING, ERROR, UNLOADED}

\* the callers of the API layer that may have a call in flight at a time
MaxCallers == 2

Callers == 1..MaxCallers

\* the most documents of one batch_predict call
MaxDocuments == 2

\* a caller between two calls, and a caller whose call awaits a hook
\* (_load_model, _unload_model or _predict):
\*   method  the public method called
\*   hooks   how often the call has invoked its hook
\*   todo    the documents a batch_predict has still to hand to _predict
IdleCaller == [pc |-> "idle", method |-> "none", hooks |-> 0, todo |-> 0]

Awaiting(method, hooks, todo) ==
    [pc |-> "await", method |-> method, hooks |-> hooks, todo |-> todo]

\* an exception: its type and str(e)
NoError == [type |-> "none", text |-> <<>>]

NotLoadedError ==
    [type |-> "RuntimeError", text |-> <<"Model must be loaded before prediction">>]

BusyError ==
    [type |-> "RuntimeError", text |-> <<"Model is currently busy, please try again later">>]

\* the public call that ended last:
\*   outcome   "returned" or "raised"
\*   error     the exception raised
\*   hooks     how often the call invoked its hook
\*   response  the state and message fields of the response returned
Ended(method, outcome, error, hooks, resp) ==
    [method |-> method, outcome |-> outcome, error |-> error, hooks |-> hooks,
     response |-> resp]

NoResponse == [state |-> "none", message |-> NoneValue]

NoLast == Ended("none", "none", NoError, 0, NoResponse)

NoCalls == [c \in Callers |-> IdleCaller]

\* the variables of the other parts of the program keep their values
Elsewhere ==
    /\ call = IdleCall
    /\ other = IdleOther
    /\ calls = NoCalls
    /\ last = NoLast

\* _process_document up to the while loop
Init ==
    /\ EXACT_MATCH_INDEX = build_index_exact_matches
    /\ gemini_client \in BOOLEAN
    /\ sentences \in Documents
    /\ contents = InitialContents(sentences)
    /\ conversation_length_tracker = 1
    /\ turn_count = 0
    /\ pc = "loop"
    /\ exit = "none"
    /\ response = EmptyResponse
    /\ function_calls = <<>>
    /\ call_index = 0
    /\ function_response_parts = <<>>
    /\ output = <<>>
    /\ provider_calls = 0
    /\ executed = <<>>
    /\ search = IdleSearch
    /\ Elsewhere
    /\ model_loaded = gemini_client
    /\ state = (IF gemini_client THEN READY ELSE UNLOADED)
    /\ error_message = NoneValue

(***************************************************************************)
(* _process_document: one turn of the while loop                           *)
(***************************************************************************)

\* break, then the return after the loop
Break ==
    /\ pc' = "done"
    /\ exit' = "break"
    /\ output' = EmptyResults(sentences)

\* an exception reaches the except clause of the while loop
Caught ==
    IF ExceptionEnds THEN Break ELSE pc' = "loop" /\ UNCHANGED <<exit, output>>

InTurn == pc = "loop" /\ LoopContinues(turn_count)

AllowedResponses ==
    LaterResponses \cup (IF turn_count < MaxRichTurns THEN RichResponses ELSE {})

\* a loop that, out of turns, returns what the first tool turn validated
LoopExitKeepsValidated ==
    /\ pc = "loop" /\ ~LoopContinues(turn_count)
    /\ pc' = "done"
    /\ exit' = "while_end"
    /\ output' =
          IF /\ Len(contents) >= 3
             /\ "function_response" \in DOMAIN contents[3].parts[1]
             /\ "validated_annotations" \in
                    DOMAIN contents[3].parts[1].function_response.response
          THEN convert_to_sentence_organized_matches(
                   contents[3].parts[1].function_response.response.validated_annotations,
                   sentences)
          ELSE EmptyResults(sentences)
    /\ UNCHANGED <<EXACT_MATCH_INDEX, gemini_client, conversation_length_tracker, sentences,
                   contents, turn_count, response, function_calls, call_index,
                   function_response_parts, provider_calls, executed, search, call, other, toolVars>>

\* the while test fails: the return after the loop
LoopExit ==
    /\ pc = "loop" /\ ~LoopContinues(turn_count)
    /\ pc' = "done"
    /\ exit' = "while_end"
    /\ output' = EmptyResults(sentences)
    /\ UNCHANGED <<EXACT_MATCH_INDEX, gemini_client, conversation_length_tracker, sentences,
                   contents, turn_count, response, function_calls, call_index,
                   function_response_parts, provider_calls, executed, search, call, other, toolVars>>

\* if not self.gemini_client: break
ClientMissing ==
    /\ InTurn /\ ~gemini_client
    /\ turn_count' = turn_count + 1
    /\ Break
    /\ UNCHANGED <<EXACT_MATCH_INDEX, gemini_client, conversation_length_tracker, sentences,
                   contents, response, function_calls, call_index,
                   function_response_parts, provider_calls, executed, search, call, other, toolVars>>

\* generate_content raises
GeminiRaises ==
    /\ InTurn /\ gemini_client
    /\ turn_count' = turn_count + 1
    /\ provider_calls' = provider_calls + 1
    /\ Caught
    /\ UNCHANGED <<EXACT_MATCH_INDEX, gemini_client, conversation_length_tracker, sentences,
                   contents, response, function_calls, call_index,
                   function_response_parts, executed, search, call, other, toolVars>>

\* the response holds no function call: nothing is appended, the loop goes on
GeminiNoFunctionCalls ==
    /\ InTurn /\ gemini_client
    /\ \E resp \in AllowedResponses :
        /\ FunctionCallsOf(resp.parts) = <<>>
        /\ response' = resp
        /\ contents' = AddModelContent(contents, resp)
    /\ turn_count' = turn_count + 1
    /\ provider_calls' = provider_calls + 1
    /\ UNCHANGED <<EXACT_MATCH_INDEX, gemini_client, conversation_length_tracker, sentences,
                   pc, exit, function_calls, call_index,
                   function_response_parts, output, executed, search, call, other, toolVars>>

\* logging a function call of the response raises
GeminiMalformedCall ==
    /\ InTurn /\ gemini_client
    /\ \E resp \in AllowedResponses :
        /\ FunctionCallsOf(resp.parts) # <<>>
        /\ LoggingRaises(resp.parts)
        /\ response' = resp
    /\ turn_count' = turn_count + 1
    /\ provider_calls' = provider_calls + 1
    /\ Caught
    /\ UNCHANGED <<EXACT_MATCH_INDEX, gemini_client, conversation_length_tracker, sentences,
                   contents, function_calls, call_index,
                   function_response_parts, executed, search, call, other, toolVars>>

\* the response holds function calls: the model's turn is appended
GeminiFunctionCalls ==
    /\ InTurn /\ gemini_client
    /\ \E resp \in AllowedResponses :
        /\ FunctionCallsOf(resp.parts) # <<>>
        /\ ~LoggingRaises(resp.parts)
        /\ response' = resp
        /\ function_calls' = FunctionCallsOf(resp.parts)
        /\ contents' = AddModelContent(contents, resp)
    /\ turn_count' = turn_count + 1
    /\ provider_calls' = provider_calls + 1
    /\ conversation_length_tracker' = conversation_length_tracker + 1
    /\ call_index' = 1
    /\ function_response_parts' = <<>>
    /\ executed' = <<>>
    /\ pc' = "dispatch"
    /\ UNCHANGED <<EXACT_MATCH_INDEX, gemini_client, sentences, exit, output, search, call, other, toolVars>>

Dispatching == pc = "dispatch" /\ call_index <= Len(function_calls)

\* one pass of the for loop, the call having returned func_response, not final
Continue(func_call, func_response) ==
    /\ ~Get(func_response, "final", FALSE)
    /\ executed' = Append(executed, [call |-> func_call, func_response |-> func_response])
    /\ function_response_parts' =
           AddResponsePart(function_response_parts,
                           FunctionResponsePart(func_call, func_response))
    /\ call_index' = call_index + 1
    /\ UNCHANGED <<pc, exit, output>>

\* _execute_function_call itself raises
Escapes(func_call, r) ==
    /\ executed' = Append(executed, [call |-> func_call, func_response |-> r])
    /\ Caught
    /\ UNCHANGED <<call_index, function_response_parts>>

Executed(func_call, r) ==
    IF r.raised THEN Escapes(func_call, r) ELSE Continue(func_call, r.value)

\* one pass of the for loop whose call is not a final submit_answer
ExecuteFunctionCall ==
    /\ Dispatching
    /\ \E env \in EnvsFor(function_calls[call_index]) :
        Executed(function_calls[call_index],
                 execute_function_call(function_calls[call_index], sentences,
                                       EXACT_MATCH_INDEX, env))
    /\ UNCHANGED <<EXACT_MATCH_INDEX, gemini_client, conversation_length_tracker, sentences,
                   contents, turn_count, response, function_calls,
                   provider_calls, search, call, other, toolVars>>

\* a final submit after which the loop goes on with the next turn
ReturnMatchesAndGoOn(validated_annotations) ==
    /\ pc' = "loop"
    /\ exit' = "return_final"
    /\ output' = convert_to_sentence_organized_matches(validated_annotations, sentences)

\* return self._convert_to_sentence_organized_matches(validated_annotations, sentences)
ReturnMatches(validated_annotations) ==
    IF ConvertRaises(validated_annotations, sentences)
    THEN Caught
    ELSE /\ pc' = "done"
         /\ exit' = "return_final"
         /\ output' = convert_to_sentence_organized_matches(validated_annotations, sentences)

Final(func_call, r) ==
    /\ ~r.raised
    /\ Get(r.value, "final", FALSE)
    /\ executed' = Append(executed, [call |-> func_call, func_response |-> r.value])
    /\ ReturnMatches(Get(Get(r.value, "result", EmptyDict), "validated_annotations", <<>>))

\* the for loop reaches a submit_answer without errors: the invocation returns
ExecuteFinalSubmit ==
    /\ Dispatching
    /\ function_calls[call_index].name = "submit_answer"
    /\ Final(function_calls[call_index],
             execute_function_call(function_calls[call_index], sentences,
                                   EXACT_MATCH_INDEX,
                                   Env(<<ID_A, ID_B>>, FALSE, FALSE, PointsNone)))
    /\ UNCHANGED <<EXACT_MATCH_INDEX, gemini_client, conversation_length_tracker, sentences,
                   contents, turn_count, response, function_calls, call_index,
                   function_response_parts, provider_calls, search, call, other, toolVars>>

\* after the for loop: the tool-response turn is appended, the loop goes on
AppendFunctionResponses ==
    /\ pc = "dispatch" /\ call_index > Len(function_calls)
    /\ contents' = AddToolContent(contents, function_response_parts)
    /\ conversation_length_tracker' = conversation_length_tracker + 1
    /\ pc' = "loop"
    /\ UNCHANGED <<EXACT_MATCH_INDEX, gemini_client, sentences, turn_count, exit, response,
                   function_calls, call_index, function_response_parts, output,
                   provider_calls, executed, search, call, other, toolVars>>

Next ==
    \/ LoopExit
    \/ ClientMissing
    \/ GeminiRaises
    \/ GeminiNoFunctionCalls
    \/ GeminiMalformedCall
    \/ GeminiFunctionCalls
    \/ ExecuteFunctionCall
    \/ ExecuteFinalSubmit
    \/ AppendFunctionResponses

Spec == Init /\ [][Next]_vars

(***************************************************************************)
(* search_terms, step by step                                              *)
(***************************************************************************)

\* the longest list of queries of a search_terms call
MaxQueries == 3

\* top_k default of search_terms
DefaultSearchTopK == 20

QueryLists == UNION {[1..n -> Queries] : n \in 0..MaxQueries}

TopKs == {1, DefaultSearchTopK}

\* no invocation of the agent runs
SearchInit ==
    /\ EXACT_MATCH_INDEX = build_index_exact_matches
    /\ gemini_client = TRUE
    /\ sentences = <<>>
    /\ contents = <<>>
    /\ conversation_length_tracker = 0
    /\ turn_count = 0
    /\ pc = "idle"
    /\ exit = "none"
    /\ response = EmptyResponse
    /\ function_calls = <<>>
    /\ call_index = 0
    /\ function_response_parts = <<>>
    /\ output = <<>>
    /\ provider_calls = 0
    /\ executed = <<>>
    /\ \E queries \in QueryLists, top_k \in TopKs :
            search = SearchFrame("start", queries, top_k)
    /\ Elsewhere
    /\ model_loaded = TRUE
    /\ state = READY
    /\ error_message = NoneValue

SearchStep(frame) ==
    /\ search' = frame
    /\ UNCHANGED <<EXACT_MATCH_INDEX, agentVars, call, other, toolVars>>

\* results = [[]] * len(queries), then step 1: the exact matches
ExactWith(p) ==
    SearchStep([search EXCEPT !.results = p.results,
                              !.to_embed = p.to_embed,
                              !.embed_indices = p.embed_indices,
                              !.pc = IF p.to_embed # <<>> THEN "embed" ELSE "fill"])

SearchExact ==
    /\ search.pc = "start"
    /\ \E order \in Orders : ExactWith(ExactPass(search.queries, EXACT_MATCH_INDEX, order))

\* step 2: embedding_model.embed_queries(to_embed)
SearchEmbed ==
    /\ search.pc = "embed"
    /\ SearchStep([search EXCEPT !.embeddings = embed_queries(search.to_embed),
                                 !.embed_calls = Append(@, search.to_embed),
                                 !.pc = "query"])

SearchEmbedRaises ==
    /\ search.pc = "embed"
    /\ SearchStep([search EXCEPT !.embed_calls = Append(@, search.to_embed),
                                 !.pc = "raised"])

\* step 3: query_vector_db(embeddings, ...)
SearchQuery ==
    /\ search.pc = "query"
    /\ \E points \in Stores :
        SearchStep([search EXCEPT
            !.points = points,
            !.search_results = query_vector_db(search.embeddings, points, search.top_k),
            !.store_calls = Append(@, search.embeddings),
            !.pc = "combine"])

SearchQueryRaises ==
    /\ search.pc = "query"
    /\ SearchStep([search EXCEPT !.store_calls = Append(@, search.embeddings),
                                 !.pc = "raised"])

\* step 4: the results of the misses are written back
SearchCombine ==
    /\ search.pc = "combine"
    /\ SearchStep([search EXCEPT
            !.results = Combine(search.results, search.embed_indices,
                                search.search_results, 1),
            !.pc = "fill"])

\* step 5 finds no None to replace; return results
SearchReturn ==
    /\ search.pc = "fill"
    /\ SearchStep([search EXCEPT !.pc = "done"])

SearchNext ==
    \/ SearchExact
    \/ SearchEmbed
    \/ SearchEmbedRaises
    \/ SearchQuery
    \/ SearchQueryRaises
    \/ SearchCombine
    \/ SearchReturn

SearchSpec == SearchInit /\ [][SearchNext]_vars

(***************************************************************************)
(* The pure functions of agent.py, called on their own                     *)
(***************************************************************************)

\* the longest text handed to normalize_text and find_exact_matches
MaxLen == 3

\* the most annotations of one submit_annotations call
MaxBatch == 2

Chars == {"A", "a", "C", " ", "!"}

Strings == UNION {[1..n -> Chars] : n \in 0..MaxLen}

\* a term of another ontology version: its name is punctuation only, its
\* synonym ends with a space
T_STALE ==
    [id |-> ID_STALE, name |-> <<"!">>, synonym |-> {<<"a", " ">>}, is_obsolete |-> FALSE]

TermUniverse == ONTOLOGY \cup {T_STALE}

Ontologies == SUBSET TermUniverse

\* a sentence with a letter outside ASCII (e with acute accent)
S2 == <<"b", "U+00E9">>

CallDocuments == Documents \cup {<<>>, <<S2, S0>>}

Annotations == {MapGood, MapFan, MapDiscontinuous, MapBadId, MapNotFound, MapNoSpan}

Batches == UNION {[1..n -> Annotations] : n \in 0..MaxBatch}

Spans ==
    {MapGood.text_span, MapFan.text_span, MapDiscontinuous.text_span,
     MapNotFound.text_span, <<>>, <<"e">>, <<"b", " ", "b">>, <<"\t", "B", " ">>,
     <<"a", " ", "-", ">", " ", "c">>, <<"b", " ", "-", ">", " ">>}

FindFrames ==
    {[pc |-> "start", op |-> "find_exact_matches", ontology |-> o, query |-> q,
      result |-> NoneValue] : o \in Ontologies, q \in Strings}

NormalizeFrames ==
    {[pc |-> "start", op |-> "normalize_text", text |-> t, result |-> <<>>,
      again |-> <<>>] : t \in Strings}

SubmitFrames ==
    {[pc |-> "start", op |-> "submit_annotations", annotations |-> a, sentences |-> d,
      result |-> <<>>] : a \in Batches, d \in CallDocuments}

ValidateFrames ==
    {[pc |-> "start", op |-> "validate_text_span_in_document", text_span |-> t,
      sentences |-> d, result |-> <<>>] : t \in Spans, d \in CallDocuments}

\* no invocation of the agent runs
AgentIdle ==
    /\ gemini_client = TRUE
    /\ sentences = <<>>
    /\ contents = <<>>
    /\ conversation_length_tracker = 0
    /\ turn_count = 0
    /\ pc = "idle"
    /\ exit = "none"
    /\ response = EmptyResponse
    /\ function_calls = <<>>
    /\ call_index = 0
    /\ function_response_parts = <<>>
    /\ output = <<>>
    /\ provider_calls = 0
    /\ executed = <<>>

\* EXACT_MATCH_INDEX = build_index_exact_matches(), over the ontology loaded
CallInit ==
    /\ call \in FindFrames \cup NormalizeFrames \cup SubmitFrames \cup ValidateFrames
    /\ EXACT_MATCH_INDEX =
           BuildIndex(IF call.op = "find_exact_matches" THEN call.ontology ELSE ONTOLOGY)
    /\ AgentIdle
    /\ search = IdleSearch
    /\ other = IdleOther
    /\ calls = NoCalls
    /\ last = NoLast
    /\ model_loaded = TRUE
    /\ state = READY
    /\ error_message = NoneValue

CallStep(frame) ==
    /\ call' = frame
    /\ UNCHANGED <<EXACT_MATCH_INDEX, agentVars, search, other, toolVars>>

FindExactMatches ==
    /\ call.pc = "start" /\ call.op = "find_exact_matches"
    /\ CallStep([call EXCEPT !.result = find_exact_matches(call.query, EXACT_MATCH_INDEX),
                             !.pc = "done"])

\* normalize_text, and normalize_text again on what it gave
NormalizeText ==
    /\ call.pc = "start" /\ call.op = "normalize_text"
    /\ CallStep([call EXCEPT !.result = normalize_text(call.text),
                             !.again = normalize_text(normalize_text(call.text)),
                             !.pc = "done"])

SubmitAnnotations ==
    /\ call.pc = "start" /\ call.op = "submit_annotations"
    /\ CallStep([call EXCEPT !.result = submit_annotations(call.annotations, call.sentences),
                             !.pc = "done"])

ValidateTextSpan ==
    /\ call.pc = "start" /\ call.op = "validate_text_span_in_document"
    /\ CallStep([call EXCEPT
           !.result = validate_text_span_in_document(call.text_span, call.sentences),
           !.pc = "done"])

CallNext ==
    \/ FindExactMatches
    \/ NormalizeText
    \/ SubmitAnnotations
    \/ ValidateTextSpan

CallSpec == CallInit /\ [][CallNext]_vars

(***************************************************************************)
(* The exact-match index under a sequence of lookups.  The index is a      *)
(* defaultdict(set): reading index[key] for an absent key would insert an  *)
(* empty bucket.                                                           *)
(***************************************************************************)

\* the most calls of one sequence
MaxLookups == 2

\* the queries looked up: with and without exact match, one of them with
\* a trailing space, one of punctuation only
LookupQueries == Queries \cup {<<"A">>, <<"a", " ">>, <<"!">>}

LookupOntologies == {ONTOLOGY, TermUniverse, {}}

LookupFrame(op, ontology, queries, n) ==
    [pc |-> "done", op |-> op, ontology |-> ontology, queries |-> queries, n |-> n]

\* EXACT_MATCH_INDEX = build_index_exact_matches(), no call made yet
LookupInit ==
    /\ \E o \in LookupOntologies :
          /\ call = LookupFrame("none", o, <<>>, 0)
          /\ EXACT_MATCH_INDEX = BuildIndex(o)
    /\ AgentIdle
    /\ search = IdleSearch
    /\ other = IdleOther
    /\ calls = NoCalls
    /\ last = NoLast
    /\ model_loaded = TRUE
    /\ state = READY
    /\ error_message = NoneValue

\* a call that looks the queries up, one after the other
Lookup(op, queries) ==
    /\ call.n < MaxLookups
    /\ call' = LookupFrame(op, call.ontology, queries, call.n + 1)
    /\ EXACT_MATCH_INDEX' = IndexAfterAll(queries, EXACT_MATCH_INDEX)
    /\ UNCHANGED <<agentVars, search, other, toolVars>>

LookupFindExactMatches == \E q \in LookupQueries : Lookup("find_exact_matches", <<q>>)

\* search_terms: find_exact_matches on every query
LookupSearchTerms == \E queries \in QueryLists : Lookup("search_terms", queries)

\* search_hpo_candidates: search_terms([query], ...)
LookupSearchCandidates == \E q \in Queries : Lookup("search_hpo_candidates", <<q>>)

\* batch_search_hpo_candidates: search_terms(queries, ...)
LookupBatchSearch ==
    \E queries \in QueryLists : Lookup("batch_search_hpo_candidates", queries)

LookupNext ==
    \/ LookupFindExactMatches
    \/ LookupSearchTerms
    \/ LookupSearchCandidates
    \/ LookupBatchSearch

LookupSpec == LookupInit /\ [][LookupNext]_vars

(***************************************************************************)
(* Two invocations of _process_document on one tool instance.  The first   *)
(* is the invocation of Spec; the second keeps its locals in `other` and   *)
(* takes its steps between the steps of the first.  Both write the one     *)
(* attribute self._conversation_length_tracker.                            *)
(***************************************************************************)

\* the most provider calls of the second invocation
MaxOtherTurns == 1

\* the environment of the tool calls of the second invocation
OtherEnv == Env(<<ID_A, ID_B>>, FALSE, FALSE, PointsNone)

\* the one function call the provider asks the second invocation to run
OtherCall == FunctionCallsOf(PlainResponse.parts)[1]

OtherFrame(p, document, transcript, turns, result) ==
    [pc |-> p, sentences |-> document, contents |-> transcript,
     turn_count |-> turns, output |-> result]

\* the first invocation is under way on the one-sentence document
InterleavedInit == Init /\ sentences = <<S0>>

Interleave(frame) ==
    /\ other' = frame
    /\ UNCHANGED <<EXACT_MATCH_INDEX, gemini_client, sentences, contents, turn_count, pc,
                   exit, response, function_calls, call_index, function_response_parts,
                   output, provider_calls, executed, search, call, toolVars>>

\* the second invocation up to its while loop
OtherStart ==
    /\ other.pc = "idle"
    /\ gemini_client
    /\ conversation_length_tracker' = 1
    /\ Interleave(OtherFrame("loop", <<S1>>, InitialContents(<<S1>>), 0, <<>>))

\* its provider answers with a function call: the model's turn is appended
OtherFunctionCalls ==
    /\ other.pc = "loop" /\ other.turn_count < MaxOtherTurns
    /\ conversation_length_tracker' = conversation_length_tracker + 1
    /\ Interleave([other EXCEPT !.contents = AddModelContent(@, PlainResponse),
                                !.turn_count = @ + 1,
                                !.pc = "dispatch"])

\* its function call has run: the tool-response turn is appended
OtherAppendFunctionResponses ==
    /\ other.pc = "dispatch"
    /\ conversation_length_tracker' = conversation_length_tracker + 1
    /\ Interleave([other EXCEPT
           !.contents =
               Append(@, [role |-> "user",
                          parts |-> <<FunctionResponsePart(OtherCall,
                              execute_function_call(OtherCall, other.sentences,
                                                    EXACT_MATCH_INDEX, OtherEnv).value)>>]),
           !.pc = "loop"])

\* generate_content raises in the second invocation: break, all-empty result
OtherGeminiRaises ==
    /\ other.pc = "loop"
    /\ UNCHANGED conversation_length_tracker
    /\ Interleave([other EXCEPT !.turn_count = @ + 1,
                                !.output = EmptyResults(other.sentences),
                                !.pc = "done"])

InterleavedNext ==
    \/ Next
    \/ OtherStart
    \/ OtherFunctionCalls
    \/ OtherAppendFunctionResponses
    \/ OtherGeminiRaises

InterleavedSpec == InterleavedInit /\ [][InterleavedNext]_vars

(***************************************************************************)
(* interface.py: ModelInterface.  A public coroutine runs up to its await  *)
(* of a hook in one step and from the hook's return or exception in the    *)
(* next; callers of the API layer interleave at these awaits.              *)
(***************************************************************************)

\* the exception a hook raises
HookError == [type |-> "Exception", text |-> ExceptionText]

Response(st, message) == [state |-> st, message |-> Some(message)]

\* ModelInterface.__init__
ToolInit ==
    /\ EXACT_MATCH_INDEX = build_index_exact_matches
    /\ AgentIdle
    /\ search = IdleSearch
    /\ Elsewhere
    /\ state = UNLOADED
    /\ model_loaded = FALSE
    /\ error_message = NoneValue

\* a test harness assigns the attributes of the tool before it calls
HarnessInit ==
    /\ EXACT_MATCH_INDEX = build_index_exact_matches
    /\ AgentIdle
    /\ search = IdleSearch
    /\ Elsewhere
    /\ state \in ToolStates
    /\ model_loaded \in BOOLEAN
    /\ error_message \in {NoneValue, Some(ExceptionText)}

ToolStep == UNCHANGED <<EXACT_MATCH_INDEX, agentVars, search, call, other>>

Idle(c) == calls[c].pc = "idle"

AwaitingHook(c, method) == calls[c].pc = "await" /\ calls[c].method = method

\* the call of c ends
End(c, method, outcome, error, resp) ==
    /\ last' = Ended(method, outcome, error, calls[c].hooks, resp)
    /\ calls' = [calls EXCEPT ![c] = IdleCaller]

\* the call of c ends without having awaited a hook
EndAtOnce(method, outcome, error, resp) ==
    /\ last' = Ended(method, outcome, error, 0, resp)
    /\ UNCHANGED calls

\* the call of c awaits its hook
Await(c, method, hooks, todo) ==
    /\ calls' = [calls EXCEPT ![c] = Awaiting(method, hooks, todo)]
    /\ UNCHANGED last

\* except Exception as e: self.state = ERROR; self.error_message = str(e)
ToError(error) ==
    /\ state' = ERROR
    /\ error_message' = Some(error.text)
    /\ UNCHANGED model_loaded

\* load(): if self.model_loaded: return "Model already loaded"
LoadAlreadyLoaded(c) ==
    /\ Idle(c) /\ model_loaded
    /\ EndAtOnce("load", "returned", NoError, Response(state, <<"Model already loaded">>))
    /\ UNCHANGED <<state, model_loaded, error_message>>
    /\ ToolStep

\* the state load() sets before it awaits _load_model
StateWhileLoadingKept(st) == st

StateWhileLoading(st) == LOADING

\* load(): self.state = LOADING; await self._load_model()
LoadBegin(c) ==
    /\ Idle(c) /\ ~model_loaded
    /\ state' = StateWhileLoading(state)
    /\ Await(c, "load", 1, 0)
    /\ UNCHANGED <<model_loaded, error_message>>
    /\ ToolStep

\* _load_model returned
LoadModelReturns(c) ==
    /\ AwaitingHook(c, "load")
    /\ model_loaded' = TRUE
    /\ state' = READY
    /\ End(c, "load", "returned", NoError, Response(READY, <<"Model loaded successfully">>))
    /\ UNCHANGED error_message
    /\ ToolStep

\* _load_model raised and load() swallows the exception
LoadModelRaisesSwallowed(c) ==
    /\ AwaitingHook(c, "load")
    /\ ToError(HookError)
    /\ End(c, "load", "returned", NoError, Response(ERROR, HookError.text))
    /\ ToolStep

\* _load_model raised: the exception is recorded and raised again
LoadModelRaises(c) ==
    /\ AwaitingHook(c, "load")
    /\ ToError(HookError)
    /\ End(c, "load", "raised", HookError, NoResponse)
    /\ ToolStep

\* unload(): if not self.model_loaded: return "Model already unloaded"
UnloadNotLoaded(c) ==
    /\ Idle(c) /\ ~model_loaded
    /\ EndAtOnce("unload", "returned", NoError, Response(state, <<"Model already unloaded">>))
    /\ UNCHANGED <<state, model_loaded, error_message>>
    /\ ToolStep

\* unload(): if self.state != READY: return
UnloadNotReady(c) ==
    /\ Idle(c) /\ model_loaded /\ state # READY
    /\ EndAtOnce("unload", "returned", NoError,
                 Response(state, <<"Model can only be unloaded in READY state">>))
    /\ UNCHANGED <<state, model_loaded, error_message>>
    /\ ToolStep

\* an unload() that clears model_loaded only after _unload_model returned
UnloadBeginKeepsLoaded(c) ==
    /\ Idle(c) /\ model_loaded /\ state = READY
    /\ state' = UNLOADING
    /\ Await(c, "unload", 1, 0)
    /\ UNCHANGED <<model_loaded, error_message>>
    /\ ToolStep

\* unload(): model_loaded = False; state = UNLOADING; await self._unload_model()
UnloadBegin(c) ==
    /\ Idle(c) /\ model_loaded /\ state = READY
    /\ model_loaded' = FALSE
    /\ state' = UNLOADING
    /\ Await(c, "unload", 1, 0)
    /\ UNCHANGED error_message
    /\ ToolStep

\* _unload_model returned
UnloadModelReturns(c) ==
    /\ AwaitingHook(c, "unload")
    /\ state' = UNLOADED
    /\ End(c, "unload", "returned", NoError,
           Response(UNLOADED, <<"Model unloaded successfully">>))
    /\ UNCHANGED <<model_loaded, error_message>>
    /\ ToolStep

\* _unload_model raised: the exception is recorded, a response is returned
UnloadModelRaises(c) ==
    /\ AwaitingHook(c, "unload")
    /\ ToError(HookError)
    /\ End(c, "unload", "returned", NoError, Response(ERROR, HookError.text))
    /\ ToolStep

\* a guard that lets a call through when the tool is busy
RejectionIgnoresBusy(loaded, st) ==
    IF ~loaded THEN NotLoadedError ELSE NoError

\* the two guards of predict() and batch_predict(): the RuntimeError they
\* raise, NoError when the call goes on
Rejection(loaded, st) ==
    IF ~loaded THEN NotLoadedError
    ELSE IF st = BUSY THEN BusyError
    ELSE NoError

Rejected == Rejection(model_loaded, state) # NoError

\* predict(): a guard raises
PredictRejected(c) ==
    /\ Idle(c) /\ Rejected
    /\ EndAtOnce("predict", "raised", Rejection(model_loaded, state), NoResponse)
    /\ UNCHANGED <<state, model_loaded, error_message>>
    /\ ToolStep

\* a predict() that marks the tool BUSY while _predict runs
PredictBeginSetsBusy(c) ==
    /\ Idle(c) /\ ~Rejected
    /\ Await(c, "predict", 1, 0)
    /\ state' = BUSY
    /\ UNCHANGED <<model_loaded, error_message>>
    /\ ToolStep

\* predict(): output = await self._predict(input_data)
PredictBegin(c) ==
    /\ Idle(c) /\ ~Rejected
    /\ Await(c, "predict", 1, 0)
    /\ UNCHANGED <<state, model_loaded, error_message>>
    /\ ToolStep

\* a predict() that marks the tool READY when _predict returned
PredictReturnsToReady(c) ==
    /\ AwaitingHook(c, "predict")
    /\ End(c, "predict", "returned", NoError, NoResponse)
    /\ state' = READY
    /\ UNCHANGED <<model_loaded, error_message>>
    /\ ToolStep

\* _predict returned
PredictReturns(c) ==
    /\ AwaitingHook(c, "predict")
    /\ End(c, "predict", "returned", NoError, NoResponse)
    /\ UNCHANGED <<state, model_loaded, error_message>>
    /\ ToolStep

\* _predict raised and predict() raises it on without recording it
PredictRaisesUnrecorded(c) ==
    /\ AwaitingHook(c, "predict")
    /\ End(c, "predict", "raised", HookError, NoResponse)
    /\ UNCHANGED <<state, model_loaded, error_message>>
    /\ ToolStep

\* _predict raised: the exception is recorded and raised again
PredictRaises(c) ==
    /\ AwaitingHook(c, "predict")
    /\ ToError(HookError)
    /\ End(c, "predict", "raised", HookError, NoResponse)
    /\ ToolStep

\* batch_predict(): a guard raises
BatchPredictRejected(c) ==
    /\ Idle(c) /\ Rejected
    /\ EndAtOnce("batch_predict", "raised", Rejection(model_loaded, state), NoResponse)
    /\ UNCHANGED <<state, model_loaded, error_message>>
    /\ ToolStep

\* batch_predict() with no document: _batch_predict returns at once
BatchPredictEmpty(c) ==
    /\ Idle(c) /\ ~Rejected
    /\ EndAtOnce("batch_predict", "returned", NoError, NoResponse)
    /\ UNCHANGED <<state, model_loaded, error_message>>
    /\ ToolStep

\* batch_predict(): _batch_predict awaits _predict on the first document
BatchPredictBegin(c) ==
    /\ Idle(c) /\ ~Rejected
    /\ \E n \in 1..MaxDocuments : Await(c, "batch_predict", 1, n - 1)
    /\ UNCHANGED <<state, model_loaded, error_message>>
    /\ ToolStep

\* _predict returned and documents are left: _predict on the next one
BatchPredictNext(c) ==
    /\ AwaitingHook(c, "batch_predict") /\ calls[c].todo > 0
    /\ Await(c, "batch_predict", calls[c].hooks + 1, calls[c].todo - 1)
    /\ UNCHANGED <<state, model_loaded, error_message>>
    /\ ToolStep

\* _predict returned on the last document
BatchPredictReturns(c) ==
    /\ AwaitingHook(c, "batch_predict") /\ calls[c].todo = 0
    /\ End(c, "batch_predict", "returned", NoError, NoResponse)
    /\ UNCHANGED <<state, model_loaded, error_message>>
    /\ ToolStep

\* _predict raised on a document
BatchPredictRaises(c) ==
    /\ AwaitingHook(c, "batch_predict")
    /\ ToError(HookError)
    /\ End(c, "batch_predict", "raised", HookError, NoResponse)
    /\ ToolStep

\* get_status(): the state, and the error message if there is one
GetStatus(c) ==
    /\ Idle(c)
    /\ EndAtOnce("get_status", "returned", NoError,
                 [state |-> state,
                  message |-> IF error_message # NoneValue /\ error_message.value # <<>>
                              THEN error_message ELSE NoneValue])
    /\ UNCHANGED <<state, model_loaded, error_message>>
    /\ ToolStep

\* get_info(): what _get_model_info returns
GetInfo(c) ==
    /\ Idle(c)
    /\ EndAtOnce("get_info", "returned", NoError, NoResponse)
    /\ UNCHANGED <<state, model_loaded, error_message>>
    /\ ToolStep

ToolNext ==
    \/ \E c \in Callers : LoadAlreadyLoaded(c)
    \/ \E c \in Callers : LoadBegin(c)
    \/ \E c \in Callers : LoadModelReturns(c)
    \/ \E c \in Callers : LoadModelRaises(c)
    \/ \E c \in Callers : UnloadNotLoaded(c)
    \/ \E c \in Callers : UnloadNotReady(c)
    \/ \E c \in Callers : UnloadBegin(c)
    \/ \E c \in Callers : UnloadModelReturns(c)
    \/ \E c \in Callers : UnloadModelRaises(c)
    \/ \E c \in Callers : PredictRejected(c)
    \/ \E c \in Callers : PredictBegin(c)
    \/ \E c \in Callers : PredictReturns(c)
    \/ \E c \in Callers : PredictRaises(c)
    \/ \E c \in Callers : BatchPredictRejected(c)
    \/ \E c \in Callers : BatchPredictEmpty(c)
    \/ \E c \in Callers : BatchPredictBegin(c)
    \/ \E c \in Callers : BatchPredictNext(c)
    \/ \E c \in Callers : BatchPredictReturns(c)
    \/ \E c \in Callers : BatchPredictRaises(c)
    \/ \E c \in Callers : GetStatus(c)
    \/ \E c \in Callers : GetInfo(c)

\* the tool from its construction on
ToolSpec == ToolInit /\ [][ToolNext]_vars

\* the tool from the attributes a test harness gave it
HarnessSpec == HarnessInit /\ [][ToolNext]_vars

\* no other caller has a call in flight
Serial(c) == \A d \in Callers \ {c} : Idle(d)

\* the public methods called one after the other: a call begins only when
\* the call before it has returned or raised
SerialNext ==
    \/ \E c \in Callers : Serial(c) /\ LoadAlreadyLoaded(c)
    \/ \E c \in Callers : Serial(c) /\ LoadBegin(c)
    \/ \E c \in Callers : Serial(c) /\ LoadModelReturns(c)
    \/ \E c \in Callers : Serial(c) /\ LoadModelRaises(c)
    \/ \E c \in Callers : Serial(c) /\ UnloadNotLoaded(c)
    \/ \E c \in Callers : Serial(c) /\ UnloadNotReady(c)
    \/ \E c \in Callers : Serial(c) /\ UnloadBegin(c)
    \/ \E c \in Callers : Serial(c) /\ UnloadModelReturns(c)
    \/ \E c \in Callers : Serial(c) /\ UnloadModelRaises(c)
    \/ \E c \in Callers : Serial(c) /\ PredictRejected(c)
    \/ \E c \in Callers : Serial(c) /\ PredictBegin(c)
    \/ \E c \in Callers : Serial(c) /\ PredictReturns(c)
    \/ \E c \in Callers : Serial(c) /\ PredictRaises(c)
    \/ \E c \in Callers : Serial(c) /\ BatchPredictRejected(c)
    \/ \E c \in Callers : Serial(c) /\ BatchPredictEmpty(c)
    \/ \E c \in Callers : Serial(c) /\ BatchPredictBegin(c)
    \/ \E c \in Callers : Serial(c) /\ BatchPredictNext(c)
    \/ \E c \in Callers : Serial(c) /\ BatchPredictReturns(c)
    \/ \E c \in Callers : Serial(c) /\ BatchPredictRaises(c)
    \/ \E c \in Callers : Serial(c) /\ GetStatus(c)
    \/ \E c \in Callers : Serial(c) /\ GetInfo(c)

SerialSpec == ToolInit /\ [][SerialNext]_vars

(***************************************************************************)
(* Properties of _process_document                                         *)
(***************************************************************************)

\* one empty match list for every sentence of the document
AllEmpty == [i \in 1..Len(sentences) |-> <<>>]

\* the invocation ended at a submit_answer that validated without errors
EndedAtSubmit ==
    /\ pc = "done"
    /\ executed # <<>>
    /\ Get(executed[Len(executed)].func_response, "final", FALSE)

\* the tool response `part` of the k-th call of the turn is waiting to be appended
InPending(k, part) ==
    /\ pc = "dispatch"
    /\ Len(function_response_parts) >= k
    /\ function_response_parts[k] = part

\* the tool response `part` of the k-th call is in the last turn of the transcript
InTranscript(k, part) ==
    /\ pc \in {"loop", "done"}
    /\ contents[Len(contents)].role = "user"
    /\ Len(contents[Len(contents)].parts) >= k
    /\ contents[Len(contents)].parts[k] = part
    /\ (exit = "while_end" => turn_count = max_turns)

\* a later call of the same response ended the invocation
EndedByLaterSubmit(k) == EndedAtSubmit /\ k < Len(executed)

\* C1: an invocation calls the provider at most max_turns (10) times, one call
\* at most per turn, whatever the provider answers.
C1_ProviderCallsBounded ==
    /\ provider_calls <= turn_count
    /\ turn_count <= max_turns
    /\ (pc = "dispatch" => provider_calls >= 1)

C1_Witness ==
    /\ pc = "done"
    /\ exit = "while_end"
    /\ provider_calls = max_turns

\* the matches of the validated annotations of sentence i, in their order
RECURSIVE MatchesAt(_, _)
MatchesAt(validated_annotations, i) ==
    IF validated_annotations = <<>> THEN <<>>
    ELSE (IF Head(validated_annotations).sentence_index = i
          THEN <<[id |-> Head(validated_annotations).hpo_id,
                  match_text |-> Head(validated_annotations).text_span]>>
          ELSE <<>>)
         \o MatchesAt(Tail(validated_annotations), i)

ExpectedMatches(validated_annotations) ==
    [i \in 1..Len(sentences) |-> MatchesAt(validated_annotations, i - 1)]

\* C2: when a submit_answer call validates with zero errors, the invocation
\* ends at that call with success and returns, for every sentence, the matches
\* of exactly the validated annotations of that sentence.
C2_CleanSubmitReturnsValidated ==
    (executed # <<>> /\ Get(executed[Len(executed)].func_response, "final", FALSE))
        => /\ pc = "done"
           /\ exit = "return_final"
           /\ output = ExpectedMatches(
                  executed[Len(executed)].func_response.result.validated_annotations)

\* a submit_answer call whose validation result lists an error
RejectedSubmit(e) ==
    /\ e.call.name = "submit_answer"
    /\ "result" \in DOMAIN e.func_response
    /\ e.func_response.result.errors \notin {<<>>, <<"[", "]">>}

SubmitPart(e) ==
    [function_response |-> [name |-> e.call.name, response |-> e.func_response.result]]

\* C3 as stated: a submit_answer call with validation errors never ends the
\* invocation; its validation result becomes its tool response in the
\* transcript.
C3_RejectedSubmitNeverEnds ==
    \A k \in 1..Len(executed) :
        RejectedSubmit(executed[k])
            => \/ InPending(k, SubmitPart(executed[k]))
               \/ InTranscript(k, SubmitPart(executed[k]))

\* C3: a submit_answer call with validation errors does not end the
\* invocation itself; its validation result becomes its tool response in the
\* transcript unless a later call of the same response is a submit_answer
\* without errors, at which the invocation ends with this turn's tool
\* responses dropped.
C3_RejectedSubmitContinues ==
    \A k \in 1..Len(executed) :
        RejectedSubmit(executed[k])
            => \/ InPending(k, SubmitPart(executed[k]))
               \/ InTranscript(k, SubmitPart(executed[k]))
               \/ EndedByLaterSubmit(k)

C3_Witness ==
    /\ pc = "loop"
    /\ provider_calls = 2
    /\ Len(executed) = 1
    /\ RejectedSubmit(executed[1])
    /\ Len(executed[1].func_response.result.validated_annotations) = 1
    /\ InTranscript(1, SubmitPart(executed[1]))

\* C4: an invocation that does not end at a submit_answer without errors
\* returns one empty match list for every sentence.
C4_NoCleanSubmitAllEmpty ==
    (pc = "done" /\ exit # "return_final")
        => /\ exit \in {"while_end", "break"}
           /\ output = [i \in 1..Len(sentences) |-> <<>>]

C4_Witness ==
    /\ pc = "done"
    /\ exit = "while_end"
    /\ turn_count = max_turns
    /\ Len(sentences) = 2
    /\ Len(contents) > 3
    /\ output = <<<<>>, <<>>>>

\* a search or submit call during which the resolver or the validator raised
ToolRaised(e) ==
    /\ e.call.name \in {"batch_search_hpo_candidates", "search_hpo_candidates",
                        "submit_answer"}
    /\ "error" \in DOMAIN e.func_response

EmptyPart(e) ==
    [function_response |-> [name |-> e.call.name, response |-> EmptyDict]]

C6_ProviderExceptionEnds ==
    [][/\ GeminiRaises => (pc' = "done" /\ output' = [i \in 1..Len(sentences) |-> <<>>])
       /\ pc = "done" => provider_calls' = provider_calls]_vars

C6_Witness ==
    /\ pc = "done"
    /\ exit = "break"
    /\ gemini_client
    /\ provider_calls = 2
    /\ turn_count = 2
    /\ FunctionCallsOf(response.parts) = <<>>
    /\ output = AllEmpty

\* the step is a turn whose response holds no function call
WastedTurn ==
    /\ provider_calls' = provider_calls + 1
    /\ FunctionCallsOf(response'.parts) = <<>>
    /\ pc' = "loop"

\* C7 as stated: a response without a tool call counts toward the budget and
\* the transcript grows by that turn.
C7_WastedTurnGrowsTranscript ==
    [][WastedTurn => (turn_count' = turn_count + 1 /\ Len(contents') > Len(contents))]_vars

\* C7: a response without a tool call counts toward the budget, no tool is
\* dispatched, and the transcript stays as it was.
C7_WastedTurnKeepsTranscript ==
    [][WastedTurn => /\ turn_count' = turn_count + 1
                     /\ contents' = contents
                     /\ executed' = executed
                     /\ function_response_parts' = function_response_parts
                     /\ output' = output]_vars

C7_Witness ==
    /\ pc = "loop"
    /\ turn_count = 2
    /\ provider_calls = 2
    /\ response = TextResponse
    /\ contents = InitialContents(sentences)

\* the tool-response turn answers the calls of the model's turn, one response
\* per call, in their order
AnswersInOrder(model_turn, tool_turn) ==
    /\ tool_turn.role = "user"
    /\ Len(tool_turn.parts) = Len(FunctionCallsOf(model_turn.parts))
    /\ \A k \in 1..Len(tool_turn.parts) :
           tool_turn.parts[k].function_response.name =
               FunctionCallsOf(model_turn.parts)[k].name

\* C8: the calls of a turn run in the order of the response, and the one
\* tool-response turn appended right after the model's turn holds one response
\* per call, in that order.
C8_ResponsesFollowCalls ==
    /\ \A j \in 2..Len(contents) :
           IF j % 2 = 0
           THEN /\ contents[j].role = "model"
                /\ FunctionCallsOf(contents[j].parts) # <<>>
           ELSE AnswersInOrder(contents[j - 1], contents[j])
    /\ pc \in {"dispatch", "loop"} =>
           /\ Len(executed) <= Len(function_calls)
           /\ \A k \in 1..Len(executed) : executed[k].call = function_calls[k]
    /\ pc = "dispatch" => Len(executed) = call_index - 1
    /\ (pc = "loop" /\ Len(contents) > 1) =>
           /\ Len(contents) % 2 = 1
           /\ function_calls = FunctionCallsOf(contents[Len(contents) - 1].parts)
           /\ contents[Len(contents)].parts =
                  [k \in 1..Len(function_calls) |->
                      [function_response |->
                          [name |-> function_calls[k].name,
                           response |-> Get(executed[k].func_response, "result",
                                            EmptyDict)]]]

C8_Witness ==
    /\ pc = "loop"
    /\ Len(contents) = 3
    /\ Len(contents[3].parts) = 2
    /\ contents[3].parts[1].function_response.name = "batch_search_hpo_candidates"
    /\ contents[3].parts[1].function_response.response # EmptyDict
    /\ contents[3].parts[2].function_response.name = "get_hpo_entry"

\* C9: _process_document always returns one match list per sentence, each a
\* list of matches, and ends only by one of its return statements.
C9_OneMatchListPerSentence ==
    pc = "done"
        => /\ exit \in {"return_final", "break", "while_end"}
           /\ DOMAIN output = 1..Len(sentences)
           /\ \A i \in 1..Len(sentences) :
                  \A k \in 1..Len(output[i]) :
                      DOMAIN output[i][k] = {"id", "match_text"}

C9_Witness ==
    /\ pc = "done"
    /\ exit = "return_final"
    /\ Len(sentences) = 2
    /\ Len(output[1]) = 1
    /\ output[2] = <<>>

(***************************************************************************)
(* Properties of search_terms                                              *)
(***************************************************************************)

\* what search_terms owes query q: the exact matches with score 1.0, in some
\* order, or else what the vector store holds for it
IsResultFor(result, q, exact_matches) ==
    IF Truthy(exact_matches)
    THEN /\ Len(result) = Cardinality(exact_matches.value)
         /\ {result[k] : k \in 1..Len(result)} =
                {<<hpo_id, ExactScore>> : hpo_id \in exact_matches.value}
    ELSE result = PointsToResponse(
                      StorePoints(search.points, embed_queries(<<q>>)[1], search.top_k))

\* C10: search_terms returns one candidate list per query, in the order of the
\* queries, for every mix of exact hits and misses; a miss without semantic
\* result gets the empty list.
C10_OneListPerQuery ==
    search.pc = "done"
        => /\ Len(search.results) = Len(search.queries)
           /\ \A i \in 1..Len(search.queries) :
                  IsResultFor(search.results[i], search.queries[i],
                              find_exact_matches(search.queries[i], EXACT_MATCH_INDEX))

C10_Witness ==
    /\ search.pc = "done"
    /\ search.queries = << <<"a">>, <<"d">>, <<>> >>
    /\ search.results[1] = <<<<ID_A, ExactScore>>>>
    /\ search.results[2] # <<>>
    /\ search.results[3] = <<>>

\* the candidates are the identifiers of exact_matches, each once, with score 1.0
IsExactResult(result, exact_matches) ==
    /\ \A k \in 1..Len(result) :
           /\ result[k][1] \in exact_matches.value
           /\ result[k][2] = ExactScore
    /\ \A hpo_id \in exact_matches.value :
           Cardinality({k \in 1..Len(result) : result[k][1] = hpo_id}) = 1

\* the i-th query went neither to the embedding model nor to the vector store
NeverEmbedded(i) ==
    /\ \A k \in 1..Len(search.embed_indices) : search.embed_indices[k] # i
    /\ \A c \in 1..Len(search.embed_calls) :
           \A k \in 1..Len(search.embed_calls[c]) :
               search.embed_calls[c][k] # search.queries[i]
    /\ \A c \in 1..Len(search.store_calls) :
           \A k \in 1..Len(search.store_calls[c]) :
               search.store_calls[c][k] # embed_queries(<<search.queries[i]>>)[1]

\* C11: for a query with an exact match in the index, search_terms returns
\* the matched identifiers, each with score 1.0, and nothing from the
\* semantic search: the query is not embedded at all.
C11_ExactHitsCarryScoreOne ==
    search.pc = "done"
        => \A i \in 1..Len(search.queries) :
               Truthy(find_exact_matches(search.queries[i], EXACT_MATCH_INDEX))
                   => /\ IsExactResult(search.results[i],
                             find_exact_matches(search.queries[i], EXACT_MATCH_INDEX))
                      /\ NeverEmbedded(i)

C11_Witness ==
    /\ search.pc = "done"
    /\ search.queries = << <<"d">>, <<"C">> >>
    /\ search.store_calls # <<>>
    /\ search.results[1] = <<<<ID_OBSOLETE, 80>>>>
    /\ Len(search.results[2]) = 2

(***************************************************************************)
(* Properties of the exact-match index                                     *)
(***************************************************************************)

\* the call of the pure function op has returned
Returns(op) == call.pc = "done" /\ call.op = op

\* the terms of the ontology, not obsolete, of which a name or a synonym
\* normalizes to the same text as the query
TermsNamed(ontology, query) ==
    {t \in ontology :
        /\ ~t.is_obsolete
        /\ \E n \in {t.name} \cup t.synonym : normalize_text(n) = normalize_text(query)}

IsLookupOf(result, terms) ==
    IF terms = {} THEN result = NoneValue
    ELSE /\ result = Some({t.id : t \in terms})
         /\ result.value # {}

\* C12: on an index built from any set of terms, find_exact_matches returns
\* None when no indexed name or synonym normalizes to the normalized query, and
\* else the set of the identifiers of the terms that do, never an empty set.
C12_LookupNoneOrNonEmpty ==
    Returns("find_exact_matches")
        => /\ IsLookupOf(call.result, TermsNamed(call.ontology, call.query))
           /\ (~call.result.is_none => call.result.value # {})

C12_Witness ==
    /\ Returns("find_exact_matches")
    /\ call.query = <<" ", "C", "!">>
    /\ call.result = NoneValue
    /\ find_exact_matches(<<"C", "!">>, EXACT_MATCH_INDEX) = Some({ID_A, ID_B})

\* C13: a query that differs from an indexed name or synonym only by leading
\* or trailing whitespace finds the bucket the trimmed query finds.
C13_SurroundingWhitespaceIgnored ==
    Returns("find_exact_matches")
        => call.result = find_exact_matches(strip(call.query), EXACT_MATCH_INDEX)

\* C14: normalize_text is idempotent.
C14_NormalizeIdempotent ==
    Returns("normalize_text") => call.again = call.result

C14_Witness ==
    /\ Returns("normalize_text")
    /\ call.text = <<"!", "A", " ">>
    /\ call.result = <<"a", " ">>
    /\ call.again = <<"a", " ">>

(***************************************************************************)
(* Properties of submit_annotations                                        *)
(***************************************************************************)

SpanOf(annotation) == Get(annotation, "text_span", <<>>)

IdOf(annotation) == Get(annotation, "hpo_id", <<>>)

\* the 0-based indices of the sentences in which the span is valid
SentenceHits(text_span, document) ==
    {i \in 0..(Len(document) - 1) :
        validate_text_span_in_sentence(text_span, document[i + 1])}

\* the annotation fails: malformed identifier, or span found in no sentence
Fails(annotation, document) ==
    \/ ~MatchesSubmitPattern(IdOf(annotation))
    \/ SentenceHits(SpanOf(annotation), document) = {}

\* what the annotation gives when it is submitted alone
Alone(annotation, document) == SubmitLoop(<<annotation>>, document)

RECURSIVE AloneValidated(_, _)
AloneValidated(annotations, document) ==
    IF annotations = <<>> THEN <<>>
    ELSE Alone(Head(annotations), document).validated_annotations
         \o AloneValidated(Tail(annotations), document)

RECURSIVE AloneErrors(_, _)
AloneErrors(annotations, document) ==
    IF annotations = <<>> THEN <<>>
    ELSE Alone(Head(annotations), document).errors
         \o AloneErrors(Tail(annotations), document)

\* a failing annotation gives one error and nothing validated, any other
\* one no error and at least one validated annotation
OwnOutcome(annotation, document) ==
    IF Fails(annotation, document)
    THEN /\ Len(Alone(annotation, document).errors) = 1
         /\ Alone(annotation, document).validated_annotations = <<>>
    ELSE /\ Alone(annotation, document).errors = <<>>
         /\ Len(Alone(annotation, document).validated_annotations) >= 1

\* C15: submit_annotations treats every annotation of a batch on its own:
\* a failing annotation (malformed identifier, or span in no sentence) gives
\* exactly one error and no validated annotation, every other one no error
\* and at least one validated annotation, and the result of the batch is
\* what its annotations give alone, put together: an error neither ends the
\* batch nor changes what another annotation gives.
C15_AnnotationsIndependent ==
    Returns("submit_annotations") =>
        /\ \A k \in 1..Len(call.annotations) :
               OwnOutcome(call.annotations[k], call.sentences)
        /\ call.result.validated_annotations =
               AloneValidated(call.annotations, call.sentences)
        /\ call.result.errors = StrOfList(AloneErrors(call.annotations, call.sentences))

\* a batch whose first annotation has a malformed identifier and whose
\* second is validated
C15_Witness ==
    /\ Returns("submit_annotations")
    /\ call.annotations = <<MapBadId, MapGood>>
    /\ call.sentences = <<S0>>
    /\ Len(call.result.validated_annotations) = 1
    /\ call.result.errors # StrOfList(<<>>)

RECURSIVE Ascending(_)
Ascending(S) ==
    IF S = {} THEN <<>>
    ELSE LET least == CHOOSE x \in S : \A y \in S : x <= y
         IN  <<least>> \o Ascending(S \ {least})

\* one record per sentence index of hits, in ascending order
RecordsOf(annotation, hits) ==
    [j \in 1..Len(hits) |->
        [text_span |-> SpanOf(annotation), hpo_id |-> IdOf(annotation),
         sentence_index |-> hits[j]]]

RECURSIVE ExpectedValidated(_, _)
ExpectedValidated(annotations, document) ==
    IF annotations = <<>> THEN <<>>
    ELSE (IF MatchesSubmitPattern(IdOf(Head(annotations)))
          THEN RecordsOf(Head(annotations),
                         Ascending(SentenceHits(SpanOf(Head(annotations)), document)))
          ELSE <<>>)
         \o ExpectedValidated(Tail(annotations), document)

RECURSIVE ExpectedErrors(_, _)
ExpectedErrors(annotations, document) ==
    IF annotations = <<>> THEN <<>>
    ELSE (IF ~MatchesSubmitPattern(IdOf(Head(annotations)))
          THEN <<InvalidIdError(IdOf(Head(annotations)))>>
          ELSE IF SentenceHits(SpanOf(Head(annotations)), document) = {}
          THEN <<SpanNotFoundError(SpanOf(Head(annotations)))>>
          ELSE <<>>)
         \o ExpectedErrors(Tail(annotations), document)

\* C16: for an annotation with a well-formed identifier submit_annotations
\* gives exactly one validated annotation for each sentence index in which
\* the span is found; the validated list is ordered by the position of the
\* annotation in the input and then by ascending sentence index; the error
\* strings are in input order.
C16_FanOutInOrder ==
    Returns("submit_annotations") =>
        /\ call.result.validated_annotations =
               ExpectedValidated(call.annotations, call.sentences)
        /\ call.result.errors = StrOfList(ExpectedErrors(call.annotations, call.sentences))

\* a span found in both sentences, submitted after a span found in one
C16_Witness ==
    /\ Returns("submit_annotations")
    /\ call.annotations = <<MapGood, MapFan>>
    /\ call.sentences = <<S0, S1>>
    /\ Len(call.result.validated_annotations) = 3
    /\ call.result.validated_annotations[2].sentence_index = 0
    /\ call.result.validated_annotations[3].sentence_index = 1

(***************************************************************************)
(* Properties of span validation                                           *)
(***************************************************************************)

\* lowercasing and collapsing whitespace runs (and trimming the ends)
LowerCollapsed(text) == strip(collapse_whitespace(lower(text)))

\* the parts of a span: the span itself, or its trimmed parts around " -> "
PartsOf(text_span) ==
    IF Contains(text_span, ARROW)
    THEN LET pieces == split(text_span, ARROW)
         IN  {strip(pieces[k]) : k \in 1..Len(pieces)}
    ELSE {text_span}

\* every part is a substring of the one sentence, under lowercasing and
\* whitespace collapsing only
ValidLowerCollapsed(text_span, sentence) ==
    \A part \in PartsOf(text_span) :
        Contains(LowerCollapsed(sentence), LowerCollapsed(part))

\* the same, under the normalization of normalize_text_for_matching
ValidFolded(text_span, sentence) ==
    \A part \in PartsOf(text_span) :
        Contains(normalize_text_for_matching(sentence), normalize_text_for_matching(part))

Found(i) == \E j \in 1..Len(call.result) : call.result[j] = i

\* C17 as stated: a span is valid for a sentence iff, after lowercasing and
\* collapsing whitespace runs in both, the span (or every trimmed part of a
\* span with " -> ") is a substring of that sentence.
C17_ValidIffLowerCollapsedSubstring ==
    Returns("validate_text_span_in_document") =>
        \A i \in 0..(Len(call.sentences) - 1) :
            Found(i) <=> ValidLowerCollapsed(call.text_span, call.sentences[i + 1])

\* C17: a span is valid for a sentence iff, after mapping Unicode
\* look-alikes and accented letters to ASCII, lowercasing, collapsing
\* whitespace runs and trimming in both, the span is a substring of the
\* sentence or, for a span with " -> ", every trimmed part is a substring of
\* that one sentence, whatever the order or adjacency of the parts; text of
\* two sentences is never combined.
C17_ValidIffFoldedSubstring ==
    Returns("validate_text_span_in_document") =>
        \A i \in 0..(Len(call.sentences) - 1) :
            Found(i) <=> ValidFolded(call.text_span, call.sentences[i + 1])

\* "c -> b": both parts are in the second sentence, in the other order,
\* and only "b" is in the first
C17_Witness ==
    /\ Returns("validate_text_span_in_document")
    /\ call.text_span = MapDiscontinuous.text_span
    /\ call.sentences = <<S0, S1>>
    /\ call.result = <<1>>

(***************************************************************************)
(* Properties of interleaved invocations                                   *)
(***************************************************************************)

Began(c, method) ==
    calls[c].pc = "idle" /\ calls'[c].pc = "await" /\ calls'[c].method = method

\* in this step a call of method began and ended, no hook awaited
EndedAtOnce(method) == last' # last /\ calls' = calls /\ last'.method = method

PredictMethods == {"predict", "batch_predict"}

GuardsPass == model_loaded /\ state # BUSY

\* C19: predict() and batch_predict() go on to _predict only when, at the
\* call, model_loaded is true and the state is not BUSY; otherwise they
\* raise RuntimeError, _predict is not called, and state, model_loaded and
\* error_message keep their values.
C19_PredictGuarded ==
    [][\A m \in PredictMethods :
          /\ \A c \in Callers : Began(c, m) => GuardsPass
          /\ (EndedAtOnce(m) /\ ~GuardsPass) =>
                /\ last'.outcome = "raised"
                /\ last'.error.type = "RuntimeError"
          /\ (EndedAtOnce(m) /\ last'.outcome = "raised") =>
                /\ ~GuardsPass
                /\ last'.hooks = 0
                /\ UNCHANGED <<state, model_loaded, error_message>>]_vars

\* predict() was called on a loaded tool whose state is BUSY
C19_Witness ==
    /\ last = Ended("predict", "raised", BusyError, 0, NoResponse)
    /\ state = BUSY
    /\ model_loaded

\* C20: load() on a tool whose model is not loaded sets the state to LOADING
\* before _load_model runs and, when _load_model returns, ends with state
\* READY and model_loaded true; load() on a tool whose model is loaded does
\* not call _load_model and changes neither state nor model_loaded.
C20_LoadSetsLoadingThenReady ==
    [][/\ \A c \in Callers : Began(c, "load") => ~model_loaded /\ state' = LOADING
       /\ \A c \in Callers :
             (AwaitingHook(c, "load") /\ calls'[c].pc = "idle"
                 /\ last'.outcome = "returned") => state' = READY /\ model_loaded'
       /\ (EndedAtOnce("load") \/ \E c \in Callers : Began(c, "load")) =>
             IF model_loaded
             THEN /\ EndedAtOnce("load")
                  /\ last'.hooks = 0
                  /\ UNCHANGED <<state, model_loaded>>
             ELSE \E c \in Callers : Began(c, "load")]_vars

\* a load() that awaited _load_model has returned
C20_Witness ==
    /\ last = Ended("load", "returned", NoError, 1,
                    Response(READY, <<"Model loaded successfully">>))
    /\ state = READY
    /\ model_loaded

\* in this step the call of c to method, which awaited its hook, ends
Finished(c, method) == AwaitingHook(c, method) /\ calls'[c].pc = "idle"

\* in this step a call of method ends
Ends(method) == EndedAtOnce(method) \/ \E c \in Callers : Finished(c, method)

\* a load() has raised: the tool as load() left it
LoadFailed ==
    /\ last.method = "load" /\ last.outcome = "raised"
    /\ \A c \in Callers : Idle(c)

\* after a failed load() the tool is in state ERROR, not loaded, and holds
\* the text of the exception load() raised
FailureRecorded ==
    LoadFailed =>
        /\ last.error = HookError
        /\ last.hooks = 1
        /\ state = ERROR
        /\ ~model_loaded
        /\ error_message = Some(last.error.text)

Unloadable == model_loaded /\ state = READY

UnloadedMessage == Some(<<"Model unloaded successfully">>)

C23_PredictFailureLeavesError ==
    [][\A m \in PredictMethods : \A c \in Callers :
          Finished(c, m) =>
             IF last'.outcome = "raised"
             THEN /\ last'.error = HookError
                  /\ state' = ERROR
                  /\ error_message' = Some(last'.error.text)
                  /\ UNCHANGED model_loaded
             ELSE /\ last'.outcome = "returned"
                  /\ UNCHANGED <<state, model_loaded, error_message>>]_vars

\* a predict() on a loaded tool whose _predict raised
C23_Witness ==
    /\ last = Ended("predict", "raised", HookError, 1, NoResponse)
    /\ state = ERROR
    /\ model_loaded
    /\ error_message = Some(ExceptionText)

(***************************************************************************)
(* Properties of the transcript                                            *)
(***************************************************************************)

\* "(i) sentence\n", for the i-th sentence of the document
NumberedLine(document, i) == <<"(">> \o IntStr(i) \o <<")", " ">> \o document[i] \o <<"\n">>

\* the first turn: the document, one numbered line per sentence
FirstTurn(document) ==
    [role |-> "user",
     parts |-> <<[text |-> <<"Document to analyze:", "\n">>
                    \o Flatten([i \in 1..Len(document) |-> NumberedLine(document, i)])]>>]

IsPrefix(s, t) == Len(s) <= Len(t) /\ SubSeq(t, 1, Len(s)) = s

\* C24: the transcript of an invocation is only ever appended to: after
\* every step it has the transcript before the step as a prefix (so the
\* transcript sent to the provider extends every earlier one), and its
\* first turn is the numbered rendering of the document.
C24_TranscriptAppendOnly ==
    [][/\ IsPrefix(contents, contents')
       /\ UNCHANGED sentences
       /\ contents'[1] = FirstTurn(sentences)]_vars

\* the provider has been called after two tool turns were appended
C24_Witness ==
    /\ Len(contents) >= 5
    /\ provider_calls >= 3
    /\ contents[1] = FirstTurn(sentences)
    /\ contents[3].role = "user" /\ contents[5].role = "user"

\* the positions of the queries without exact match, ascending
RECURSIVE MissPositionsFrom(_)
MissPositionsFrom(i) ==
    IF i > Len(search.queries) THEN <<>>
    ELSE (IF Truthy(find_exact_matches(search.queries[i], EXACT_MATCH_INDEX))
          THEN <<>> ELSE <<i>>)
         \o MissPositionsFrom(i + 1)

MissPositions == MissPositionsFrom(1)

\* the queries without exact match, in the order of the call
Misses == [k \in 1..Len(MissPositions) |-> search.queries[MissPositions[k]]]

\* C25: search_terms calls the embedding service at most once per call, with
\* exactly the queries that have no exact match, in their original relative
\* order; it calls neither the embedding service nor the vector store when
\* every query has an exact match; the i-th semantic result list is written
\* to the position of the i-th miss.
C25_MissesEmbeddedOnce ==
    /\ Len(search.embed_calls) <= 1
    /\ Len(search.store_calls) <= 1
    /\ \A c \in 1..Len(search.embed_calls) : search.embed_calls[c] = Misses
    /\ \A c \in 1..Len(search.store_calls) : search.store_calls[c] = embed_queries(Misses)
    /\ Misses = <<>> => search.embed_calls = <<>> /\ search.store_calls = <<>>
    /\ (search.pc = "done" /\ Misses # <<>>) =>
          /\ Len(search.embed_calls) = 1
          /\ Len(search.search_results) = Len(Misses)
          /\ \A k \in 1..Len(Misses) :
                 search.results[MissPositions[k]] = search.search_results[k]

\* two misses around an exact hit, the second miss without semantic result
C25_Witness ==
    /\ search.pc = "done"
    /\ search.queries = << <<"d">>, <<"a">>, <<>> >>
    /\ search.embed_calls = << << <<"d">>, <<>> >> >>
    /\ search.results[1] = search.search_results[1]
    /\ search.results[1] # <<>>
    /\ search.results[3] = <<>>

\* C26: no sequence of find_exact_matches, search_terms,
\* search_hpo_candidates or batch_search_hpo_candidates calls, lookups of
\* absent keys included, adds, removes or changes a bucket of the
\* exact-match index built at start.
C26_IndexNeverMutated ==
    call.op \in {"none", "find_exact_matches", "search_terms", "search_hpo_candidates",
                 "batch_search_hpo_candidates"}
        => EXACT_MATCH_INDEX = BuildIndex(call.ontology)

\* the second call of a sequence looked up two keys that are not in the index
C26_Witness ==
    /\ call.op = "batch_search_hpo_candidates"
    /\ call.n = 2
    /\ call.ontology = ONTOLOGY
    /\ call.queries = << <<"d">>, <<>> >>
    /\ <<"d">> \notin DOMAIN EXACT_MATCH_INDEX
    /\ <<>> \notin DOMAIN EXACT_MATCH_INDEX

\* a prediction failed on a loaded tool
FailedLoaded == state = ERROR /\ model_loaded

\* C27: once a predict or batch_predict call has failed on a loaded tool
\* (state ERROR, model_loaded true), no sequence of public operations brings
\* the state back to READY or UNLOADED: the tool stays in ERROR, loaded,
\* also when later predictions succeed.
C27_ErrorIsSticky ==
    [][FailedLoaded => (state' = ERROR /\ model_loaded')]_vars

\* a prediction has succeeded after a failed one: the state is still ERROR
C27_Witness ==
    /\ FailedLoaded
    /\ last = Ended("predict", "returned", NoError, 1, NoResponse)
    /\ error_message = Some(ExceptionText)

\* a call of method is in flight
InFlight(method) == \E d \in Callers : AwaitingHook(d, method)

\* in this step a predict() or batch_predict() is called and raises at a guard
Turned(m) == EndedAtOnce(m) /\ last'.outcome = "raised"

CleanSubmitRun ==
    /\ executed # <<>>
    /\ Get(executed[Len(executed)].func_response, "final", FALSE)

\* C29: when a response holds a submit_answer call that validates without
\* errors together with other tool calls, the invocation ends at the submit:
\* the calls listed after it are never executed, and the results of the calls
\* executed before it in that response are never appended to the transcript,
\* whose last turn stays the model's turn.
C29_InvocationEndsAtCleanSubmit ==
    CleanSubmitRun =>
        /\ pc = "done"
        /\ Len(executed) <= Len(function_calls)
        /\ \A k \in 1..Len(executed) : executed[k].call = function_calls[k]
        /\ function_calls[Len(executed)].name = "submit_answer"
        /\ \A k \in 1..(Len(executed) - 1) :
               ~Get(executed[k].func_response, "final", FALSE)
        /\ contents[Len(contents)] = [role |-> "model", parts |-> response.parts]
        /\ Len(function_response_parts) = Len(executed) - 1

\* a search, a clean submit and a third call in one response: the search
\* ran, the third call did not, the transcript ends with the model's turn
C29_Witness ==
    /\ CleanSubmitRun
    /\ response = [parts |-> <<SearchMiss, Submit(<<MapFan, MapGood>>), UnknownCall>>]
    /\ Len(executed) = 2
    /\ Len(function_calls) = 3
    /\ exit = "return_final"
    /\ Len(contents) = 2

\* the match is one of the annotations validated for sentence i (1-based)
ValidatedBy(match, i, validated_annotations) ==
    \E k \in 1..Len(validated_annotations) :
        /\ validated_annotations[k].hpo_id = match.id
        /\ validated_annotations[k].text_span = match.match_text
        /\ validated_annotations[k].sentence_index = i - 1

\* C30: the output of an invocation holds only annotations validated by the
\* one submit_answer call without errors that ended it; what an earlier
\* submit rejected for errors had validated is not in the output unless it
\* was submitted again, and an invocation that ends otherwise (turn budget,
\* exception) returns no annotation at all.
C30_OutputOnlyFromTerminatingSubmit ==
    pc = "done" =>
        /\ Len(output) = Len(sentences)
        /\ \A i \in 1..Len(output) : \A j \in 1..Len(output[i]) :
               /\ CleanSubmitRun
               /\ ValidatedBy(output[i][j], i,
                      executed[Len(executed)].func_response.result.validated_annotations)

\* a submit rejected for one malformed identifier had validated an
\* annotation; the turn budget ran out and the output is empty
C30_Witness ==
    /\ pc = "done"
    /\ exit = "while_end"
    /\ Len(contents) >= 3
    /\ contents[2].parts = <<Submit(<<MapBadId, MapGood>>)>>
    /\ Len(contents[3].parts[1].function_response.response.validated_annotations) = 1
    /\ output = [i \in 1..Len(sentences) |-> <<>>]

====
